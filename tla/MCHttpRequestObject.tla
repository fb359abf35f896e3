------------------------ MODULE MCHttpRequestObject ------------------------
EXTENDS HttpRequestObject

MCRequests == {
    [version |-> "1.1", origin |-> "none", body |-> 0],      \* SendRequest
    [version |-> "1.1", origin |-> "none", body |-> 2],      \* SendPostMethodRequest
    [version |-> "1.1", origin |-> "listed", body |-> 0],    \* a browser
    [version |-> "1.0", origin |-> "none", body |-> 0],
    [version |-> "1.0", origin |-> "other", body |-> 1],
    [version |-> "0.9", origin |-> "none", body |-> 0]}
=============================================================================
