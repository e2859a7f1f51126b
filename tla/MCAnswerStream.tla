--------------------------- MODULE MCAnswerStream ---------------------------
(* Two workers that answer on one socket.                                    *)
EXTENDS AnswerStream, TLC

CONSTANTS w1, w2

MCWorker == {w1, w2}
===============================================================================
