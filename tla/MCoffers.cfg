SPECIFICATION OfferSpec
CONSTANTS
    Sdps <- Offers
    Candidates = {c1}
    Values = {"video", "audio", "application", "mid0", "mid1", "mid2", "mid3", "rtpmap1", "rtpmap2", "ufrag1", "ufrag2", "pwd1", "options1", "other1"}
    MaxOffers = 2
INVARIANTS
    AnswerMirrorsOffer
    SessionMatchesOffers
    SessionUsesOwnTracks
CHECK_DEADLOCK FALSE
