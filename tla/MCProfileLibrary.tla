-------------------------- MODULE MCProfileLibrary --------------------------
(* Constants of the ProfileLibrary runs.                                   *)
EXTENDS ProfileLibrary

CONSTANTS cv1, cv2, d1, d2, u1, none, tech, text

\* A CV with one bullet, which names a technology.
OneBullet == <<[items |-> {tech}, text |-> none]>>

\* A document says nothing of note, or names that technology and describes it.
NothingOrBoth == {[items |-> {}, text |-> none], [items |-> {tech}, text |-> text]}

\* Documents of a kind are interchangeable.
Symmetry == Permutations({cv1, cv2}) \cup Permutations({d1, d2})
=============================================================================
