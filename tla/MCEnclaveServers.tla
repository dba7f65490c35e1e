-------------------------- MODULE MCEnclaveServers --------------------------
(* EnclaveServers for TLC: two hashes, all configurations.                  *)
EXTENDS EnclaveServers

CONSTANTS r1, h1, h2

const_Request == {r1}
const_Hash == {h1, h2}
(* Short, right, at the limit with a newline, broken there, and beyond it. *)
const_Bodies == {[chars |-> 1, len |-> 1, end |-> "EOF"],
                 [chars |-> 2, len |-> 2, end |-> "EOF"],
                 [chars |-> 2, len |-> 3, end |-> "EOF"],
                 [chars |-> 2, len |-> 3, end |-> "error"],
                 [chars |-> 3, len |-> 3, end |-> "EOF"],
                 [chars |-> 2, len |-> 4, end |-> "EOF"]}
const_PCRs == [pcr \in {0, 4} |-> "value"]

(* Every combination of flags, and what single ones of them do. *)
const_All == Config
const_Worker == {c \in Config : c.isWorker /\ ~c.useACME}
const_ACME == {c \in Config : c.useACME}

=============================================================================
