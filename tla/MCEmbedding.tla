---------------------------- MODULE MCEmbedding ----------------------------
(* Constants of the Embedding runs.                                        *)
EXTENDS Embedding, TLC

CONSTANTS cv1, cv2, doc, repo, t0, t1, t2, ti1, ti2, none
=============================================================================
