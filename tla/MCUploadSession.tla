-------------------------- MODULE MCUploadSession --------------------------
(* Two requests at once, two slots, and a purge that has two attempts.  A
   MiB has three bytes, a part at least six, and an upload at most three
   parts: a file of 4 bytes is put at once, one of 11 in two parts.        *)
EXTENDS UploadSession

CONSTANTS q1, q2, w1, w2

MCFiles == 0 .. 200
MCPreferences == 0 .. 20

(* API requests, bytes put by the browser, runs of the retention; faults:
   dying API processes, failing purges, multipart listings that fail, aborts
   and keys that the store refuses, dying workers.                         *)
UploadBound == [requests |-> 3, puts |-> 1, expiries |-> 1, faults |-> 1, deaths |-> 1, errors |-> 1,
                abortErrors |-> 1, refusals |-> 1, keyErrors |-> 1, crashes |-> 1]
=============================================================================
