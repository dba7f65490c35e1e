---------------------------- MODULE LimitReader ----------------------------
(***************************************************************************)
(* limitReader (system.go), through which the handlers read the bodies of  *)
(* requests: a call of Read as the set of its outcomes.  A body of which   *)
(* "unread" bytes are still to come ends in EOF or, when the connection    *)
(* breaks, in another error.  The buffer is never smaller than the limit:  *)
(* io.ReadAll's is cut down to it.                                         *)
(***************************************************************************)
EXTENDS Integers

(* What io.Reader lets Read return: the error with the last bytes or after. *)
BodyRead(unread, end, room) ==
  {o \in [n : 0 .. room, err : {"nil", "EOF", "error"}] :
     /\ o.n <= unread
     /\ o.err = "nil" => o.n > 0
     /\ o.err # "nil" => o.n = unread /\ o.err = end}

(* A mutant: whatever comes with EOF is taken for nothing. *)
ProbeIgnoringBytes(o) == IF o.err = "EOF" THEN "EOF" ELSE "tooMuch"

(* The read of one byte that tells the end of the body from more of it. *)
Probe(o) == IF o.n = 0 /\ o.err = "EOF" THEN "EOF" ELSE "tooMuch"

(* limitReader.Read with l.Limit = limit. *)
LimitedRead(limit, unread, end) ==
  IF limit = 0 THEN {[n |-> 0, err |-> Probe(o)] : o \in BodyRead(unread, end, 1)}
  ELSE BodyRead(unread, end, limit)

=============================================================================
