-------------------------- MODULE MCSignallingOffer --------------------------
(* Offers of up to two sections, with ICE lines before or within them, a    *)
(* mid before them, before or after the rtpmap lines, a second rtpmap or     *)
(* none, and a section of another type.                                      *)
EXTENDS SignallingOffer

Attr(kind, value) == [kind |-> kind, value |-> value]

Attributes == {<<Attr("mid", "mid1"), Attr("rtpmap", "rtpmap1")>>,
               <<Attr("rtpmap", "rtpmap2"), Attr("rtpmap", "rtpmap1"), Attr("ufrag", "ufrag2"), Attr("mid", "mid2")>>,
               <<Attr("other", "other1")>>}

OneSection == {<<Attr("m", media)>> \o a : media \in {"video", "audio"}, a \in Attributes}
              \cup {<<Attr("m", "application"), Attr("mid", "mid3")>>}

TwoSections == {s \o t : s, t \in OneSection}

Session == {<<>>, <<Attr("mid", "mid0"), Attr("ufrag", "ufrag1"), Attr("pwd", "pwd1"), Attr("options", "options1")>>}

Offers == {h \o s : h \in Session, s \in OneSection \cup TwoSections \cup {<<>>}}
=============================================================================
