---------------------------- MODULE MCEntityFeed ----------------------------
(***************************************************************************)
(* EntityFeed with one release (each is handled apart from the others), a  *)
(* file and a web capture that may hold it, and a container.               *)
(***************************************************************************)
EXTENDS EntityFeed

CONSTANTS r1, f, w, c

MCRelease == {r1}
MCFile == {f}
MCCapture == {w}
MCContainer == {c}

Article == [type |-> "article-journal", htmlContainer |-> FALSE, doi |-> "acceptlist",
            openId |-> FALSE, big5 |-> TRUE, preserved |-> TRUE, oa |-> FALSE,
            version |-> FALSE, hasVersion |-> FALSE]

MCSeed == {r1, f}

\* From a big publisher and preserved, but on the accept list.
MCMetadata == {Article}

=============================================================================
