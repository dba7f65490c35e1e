------------------------- MODULE NetworkingProofs -------------------------
(***************************************************************************)
(* Proofs about Networking, for every size of a byte, every set of frames  *)
(* and any number of frames and failures: the header of a frame, the       *)
(* errors of the goroutines, types, and the frames as data: what a stream  *)
(* of bytes carries and what it decodes to, and how one read, write, send  *)
(* or cut moves it along.  FrameDeliveryProofs applies this to the         *)
(* connections.                                                            *)
(***************************************************************************)
EXTENDS Networking, WellFoundedInduction, TLAPS

-----------------------------------------------------------------------------
(* The header. *)

(* The longest frame. *)
LEMMA HeaderLimit == frameLen \in Nat
<1>1. Base \in Nat /\ Base * Base \in Nat
  BY BaseAssumption
<1>2. Base * Base >= 1
  BY <1>1, BaseAssumption
<1> QED
  BY <1>1, <1>2 DEF frameLen

(* The higher byte of a frame's length is a byte. *)
LEMMA HeaderHigh ==
  ASSUME NEW n \in 0 .. frameLen
  PROVE  /\ n = Base * (n \div Base) + (n % Base)
         /\ n % Base \in Byte
         /\ n \div Base \in Byte
         /\ (n \div Base) % Base = n \div Base
<1> DEFINE q == n \div Base
<1>1. Base \in Nat /\ Base > 1 /\ Base * Base \in Nat
  BY BaseAssumption
<1>2. n \in Nat /\ n < Base * Base
  BY <1>1 DEF frameLen
<1>3. /\ q \in Nat /\ n % Base \in 0 .. Base - 1
      /\ n = Base * q + (n % Base)
  BY <1>1, <1>2
<1>4. q < Base
  <2> SUFFICES ASSUME q >= Base PROVE FALSE
    BY <1>1, <1>3
  <2> HIDE DEF q
  <2>1. Base * q >= Base * Base /\ Base * q \in Nat
    BY <1>1, <1>3
  <2>2. n >= Base * q
    BY <1>2, <1>3, <2>1
  <2> QED
    BY <1>1, <1>2, <2>1, <2>2
<1>5. q % Base = q
  BY <1>1, <1>3, <1>4
<1> QED
  BY <1>1, <1>3, <1>4, <1>5 DEF Byte

(* The header: every length of a frame survives PutUint16 and Uint16. *)
THEOREM HeaderRoundTrip ==
  \A n \in 0 .. frameLen : /\ PutUint16(n) \in Byte \X Byte
                           /\ Uint16(PutUint16(n)) = n
<1> SUFFICES ASSUME NEW n \in 0 .. frameLen
             PROVE  /\ PutUint16(n) \in Byte \X Byte
                    /\ Uint16(PutUint16(n)) = n
  OBVIOUS
<1>1. n % Base \in Int /\ Base * (n \div Base) \in Int
  BY HeaderHigh, BaseAssumption DEF Byte
<1> QED
  BY <1>1, HeaderHigh DEF PutUint16, Uint16

(* PutUint16 yields two bytes for every length. *)
LEMMA HeaderType ==
  ASSUME NEW n \in Nat
  PROVE  PutUint16(n) \in Seq(Byte) /\ Len(PutUint16(n)) = 2
<1>1. n % Base \in Byte /\ (n \div Base) \in Nat
  BY BaseAssumption DEF Byte
<1>2. (n \div Base) % Base \in Byte
  BY <1>1, BaseAssumption DEF Byte
<1> QED
  BY <1>1, <1>2 DEF PutUint16

-----------------------------------------------------------------------------
(* The errors: every goroutine that has ended has reported one, which is in *)
(* errCh or has been read by setupNetworking.                               *)

One(b) == IF b THEN 1 ELSE 0

(* setupNetworking has read an error from the connection's errCh. *)
Taken(c) == tx[c] # "none" /\ ~(c = cur /\ run \in {"select", "returned"})

(* What is known of the goroutines without what they read and write. *)
ControlOK ==
  /\ run \in {"dial", "tap", "configure", "select", "sleep", "returned"}
  /\ cur \in 0 .. MaxFaults + 1
  /\ run \in {"tap", "configure", "select"} => cur > 0
  /\ errCh \in [Conn -> 0 .. 1]
  /\ tx \in [Conn -> {"none", "header", "payload", "write", "failed", "done"}]
  /\ rx \in [Conn -> {"none", "read", "write", "failed", "done"}]

SpawnInv ==
  \A c \in Conn :
    /\ tx[c] = "none" <=> rx[c] = "none"
    /\ c > cur \/ (c = cur /\ run \in {"tap", "configure"}) => tx[c] = "none"

CountInv ==
  \A c \in Conn :
    One(tx[c] = "done") + One(rx[c] = "done") = errCh[c] + One(Taken(c))

IInv == ControlOK /\ SpawnInv /\ CountInv

(* The steps of runNetworking. *)
LEMMA RunStep ==
  ASSUME IInv,
         Dial \/ CreateTap \/ Configure \/ SetupFails \/ SelectErr \/ SelectStop \/ Retry
  PROVE  IInv'
<1>1. CASE Dial
  BY <1>1, BoundsAssumption DEF Dial, IInv, ControlOK, SpawnInv, CountInv,
     One, Taken, Conn, txVars, rxVars
<1>2. CASE CreateTap
  BY <1>2, BoundsAssumption DEF CreateTap, IInv, ControlOK, SpawnInv, CountInv,
     One, Taken, Conn, txVars, rxVars
<1>3. CASE Configure
  BY <1>3, BoundsAssumption DEF Configure, IInv, ControlOK, SpawnInv, CountInv,
     One, Taken, Conn
<1>4. CASE SetupFails
  BY <1>4, BoundsAssumption DEF SetupFails, IInv, ControlOK, SpawnInv, CountInv,
     One, Taken, Conn, txVars, rxVars
<1>5. CASE SelectErr
  BY <1>5, BoundsAssumption DEF SelectErr, IInv, ControlOK, SpawnInv, CountInv,
     One, Taken, Conn, txVars, rxVars
<1>6. CASE SelectStop
  BY <1>6, BoundsAssumption DEF SelectStop, IInv, ControlOK, SpawnInv, CountInv,
     One, Taken, Conn, txVars, rxVars
<1>7. CASE Retry
  BY <1>7, BoundsAssumption DEF Retry, IInv, ControlOK, SpawnInv, CountInv,
     One, Taken, Conn, txVars, rxVars
<1> QED
  BY <1>1, <1>2, <1>3, <1>4, <1>5, <1>6, <1>7

(* A goroutine that neither starts nor ends. *)
LEMMA TxMoves ==
  ASSUME IInv, NEW c \in Conn, UNCHANGED <<run, cur, errCh, rx>>,
         tx[c] \in {"header", "payload", "write"},
         NEW state \in {"header", "payload", "write", "failed"},
         tx' = [tx EXCEPT ![c] = state]
  PROVE  IInv'
<1>1. ControlOK' /\ SpawnInv'
  BY DEF IInv, ControlOK, SpawnInv
<1>2. \A d \in Conn : /\ tx'[d] = "done" <=> tx[d] = "done"
                      /\ Taken(d)' <=> Taken(d)
  BY DEF IInv, ControlOK, Taken
<1> QED
  BY <1>1, <1>2 DEF IInv, CountInv, One

LEMMA RxMoves ==
  ASSUME IInv, NEW c \in Conn, UNCHANGED <<run, cur, errCh, tx>>,
         rx[c] \in {"read", "write"},
         NEW state \in {"read", "write", "failed"},
         rx' = [rx EXCEPT ![c] = state]
  PROVE  IInv'
<1>1. ControlOK' /\ SpawnInv'
  BY DEF IInv, ControlOK, SpawnInv
<1>2. \A d \in Conn : /\ rx'[d] = "done" <=> rx[d] = "done"
                      /\ Taken(d)' <=> Taken(d)
  BY DEF Taken, IInv, ControlOK
<1> QED
  BY <1>1, <1>2 DEF IInv, CountInv, One

(* The steps of the goroutines. *)
LEMMA GoroutineStep ==
  ASSUME IInv, NEW c \in Conn, Tx(c) \/ Rx(c) \/ TapFails(c)
  PROVE  IInv'
<1>1. CASE TxHeader(c) \/ TxReadFails(c) \/ TxWrite(c)
  BY <1>1, TxMoves DEF TxHeader, TxReadFails, TxWrite, TxGoes, runVars, rxVars
<1>2. CASE TxPayload(c)
  BY <1>2, TxMoves, Zenon DEF TxPayload, TxGoes, runVars, rxVars
<1>3. CASE TxReports(c)
  <2>1. /\ tx[c] = "failed" /\ tx' = [tx EXCEPT ![c] = "done"]
        /\ errCh[c] < 1 /\ errCh' = [errCh EXCEPT ![c] = @ + 1]
        /\ UNCHANGED <<run, cur, rx>>
    BY <1>3 DEF TxReports, TxGoes, Room, runVars, rxVars
  <2>2. ControlOK' /\ SpawnInv'
    BY <2>1 DEF IInv, ControlOK, SpawnInv
  <2>3. ASSUME NEW d \in Conn
        PROVE  One(tx'[d] = "done") + One(rx'[d] = "done") = errCh'[d] + One(Taken(d)')
    <3>1. Taken(d)' <=> Taken(d)
      BY <2>1 DEF Taken, IInv, ControlOK
    <3>2. One(tx[d] = "done") + One(rx[d] = "done") = errCh[d] + One(Taken(d))
      BY DEF IInv, CountInv
    <3> QED
      BY <2>1, <3>1, <3>2 DEF IInv, ControlOK, One
  <2> QED
    BY <2>2, <2>3 DEF IInv, CountInv
<1>4. CASE RxReadFails(c) \/ RxWrite(c)
  <2>1. /\ UNCHANGED <<run, cur, errCh, tx>>
        /\ rx[c] \in {"read", "write"}
        /\ RxGoes(c, "read") \/ RxGoes(c, "failed")
    BY <1>4, Zenon DEF RxReadFails, RxWrite, runVars, txVars
  <2> QED
    BY <2>1, RxMoves DEF RxGoes
<1>5. CASE RxReports(c)
  <2>1. /\ rx[c] = "failed" /\ rx' = [rx EXCEPT ![c] = "done"]
        /\ errCh[c] < 1 /\ errCh' = [errCh EXCEPT ![c] = @ + 1]
        /\ UNCHANGED <<run, cur, tx>>
    BY <1>5 DEF RxReports, RxGoes, Room, runVars, txVars
  <2>2. ControlOK' /\ SpawnInv'
    BY <2>1 DEF IInv, ControlOK, SpawnInv
  <2>3. ASSUME NEW d \in Conn
        PROVE  One(tx'[d] = "done") + One(rx'[d] = "done") = errCh'[d] + One(Taken(d)')
    <3>1. Taken(d)' <=> Taken(d)
      BY <2>1 DEF Taken, IInv, ControlOK
    <3>2. One(tx[d] = "done") + One(rx[d] = "done") = errCh[d] + One(Taken(d))
      BY DEF IInv, CountInv
    <3> QED
      BY <2>1, <3>1, <3>2 DEF IInv, ControlOK, One
  <2> QED
    BY <2>2, <2>3 DEF IInv, CountInv
<1>6. CASE TapFails(c)
  <2>1. /\ UNCHANGED <<run, cur, errCh>>
        /\ \/ tx[c] = "write" /\ TxGoes(c, "failed") /\ UNCHANGED rx
           \/ rx[c] = "read" /\ RxGoes(c, "failed") /\ UNCHANGED tx
    BY <1>6 DEF TapFails, runVars
  <2> QED
    BY <2>1, TxMoves, RxMoves DEF TxGoes, RxGoes
<1> QED
  BY <1>1, <1>2, <1>3, <1>4, <1>5, <1>6 DEF Tx, Rx

LEMMA InitInv == Init => IInv
BY BoundsAssumption DEF Init, IInv, ControlOK, SpawnInv, CountInv, One, Taken, Conn

LEMMA NextStep ==
  ASSUME IInv, [Next]_vars
  PROVE  IInv'
<1>1. CASE Setup \/ SetupFails
  BY <1>1, RunStep DEF Setup
<1>2. CASE \E c \in Conn : Tx(c) \/ Rx(c) \/ TapFails(c)
  BY <1>2, GoroutineStep
<1>3. ASSUME NEW c \in Conn, NEW f \in Frame, RxRead(c, f)
      PROVE  IInv'
  BY <1>3, RxMoves, Zenon DEF RxRead, RxGoes, runVars, txVars
<1>4. CASE UNCHANGED <<run, cur, errCh, tx, rx>>
  BY <1>4 DEF IInv, ControlOK, SpawnInv, CountInv, One, Taken
<1>5. CASE Stop \/ UNCHANGED vars
  BY <1>4, <1>5 DEF Stop, vars, runVars, txVars, rxVars
<1>6. CASE \E c \in Conn : \/ Cut(c)
                          \/ \E f \in Frame \cup {<<>>} : HostSends(c, f)
  BY <1>4, <1>6, Zenon DEF Cut, HostSends, runVars, rxVars
<1> QED
  BY <1>1, <1>2, <1>3, <1>5, <1>6 DEF Next

(* IInv is an invariant. *)
THEOREM Invariance == Spec => []IInv
BY InitInv, NextStep, PTL DEF Spec

(***************************************************************************)
(* errCh's room for one error suffices, except after stop: a goroutine     *)
(* that waits behind another one's error means that setupNetworking has    *)
(* read none, hence that it returned because of stop.                      *)
(***************************************************************************)
THEOREM NoLeakBeforeStop == Spec => []LeaksOnlyAfterStop
<1>1. IInv => LeaksOnlyAfterStop
  <2> SUFFICES ASSUME IInv, NEW c \in Conn, Leaked(c), ~(c = cur /\ run = "returned")
               PROVE  FALSE
    BY DEF LeaksOnlyAfterStop
  <2>1. Taken(c) /\ errCh[c] = 1
    BY DEF Leaked, Taken, IInv, SpawnInv
  <2>2. tx[c] = "done" /\ rx[c] = "done"
    BY <2>1 DEF IInv, ControlOK, CountInv, One
  <2> QED
    BY <2>2 DEF Leaked
<1> QED
  BY <1>1, Invariance, PTL

-----------------------------------------------------------------------------
(* Types: the data, and a complete header where tx reads a payload. *)

DataOK ==
  /\ stop \in BOOLEAN
  /\ conn \in [Conn -> {"none", "open", "cut", "closed"}]
  /\ tap \in [Conn -> {"none", "open", "closed"}]
  /\ txBuf \in [Conn -> Seq(Byte)] /\ rxBuf \in [Conn -> Seq(Byte)]
  /\ down \in [Conn -> Seq(Byte)] /\ up \in [Conn -> Seq(Byte)]
  /\ hostSent \in [Conn -> Seq(Seq(Byte))]
  /\ delivered \in [Conn -> Seq(Seq(Byte))]
  /\ appSent \in [Conn -> Seq(Seq(Byte))]
  /\ frames \in 0 .. MaxFrames
  /\ faults \in 0 .. MaxFaults
  /\ \A c \in Conn : tx[c] = "payload" => Len(txBuf[c]) = frameSizeLen

(* A frame is a sequence of bytes, as is what the host sends for it. *)
LEMMA FrameType ==
  ASSUME NEW f \in Frame \cup {<<>>}
  PROVE  f \in Seq(Byte) /\ <<Len(f) % Base, Len(f) \div Base>> \in Seq(Byte)
<1>1. f \in Seq(Byte) /\ Len(f) \in 0 .. frameLen
  <2>1. frameLen \in Nat
    BY HeaderLimit
  <2>2. CASE f = <<>>
    BY <2>1, <2>2
  <2>3. CASE f \in Frame
    BY <2>1, <2>3, FrameAssumption
  <2> QED
    BY <2>2, <2>3
<1>2. Len(f) % Base \in Byte /\ Len(f) \div Base \in Byte
  BY <1>1, HeaderHigh
<1>3. <<Len(f) % Base, Len(f) \div Base>> \in Seq(Byte)
  BY <1>2
<1> QED
  BY <1>1, <1>3

(* io.ReadFull leaves sequences of bytes, and has read as many as it should. *)
LEMMA ReadFullType ==
  ASSUME DataOK, NEW c \in Conn, NEW n \in Nat, ReadFull(c, n)
  PROVE  /\ txBuf' \in [Conn -> Seq(Byte)] /\ down' \in [Conn -> Seq(Byte)]
         /\ Len(txBuf'[c]) = n
         /\ \A d \in Conn \ {c} : txBuf'[d] = txBuf[d]
<1>1. down[c] \in Seq(Byte) /\ n <= Len(down[c])
  BY DEF DataOK, ReadFull
<1>2. /\ SubSeq(down[c], 1, n) \in Seq(Byte) /\ Len(SubSeq(down[c], 1, n)) = n
      /\ SubSeq(down[c], n + 1, Len(down[c])) \in Seq(Byte)
  BY <1>1
<1> QED
  BY <1>2 DEF DataOK, ReadFull

(* The length in a header is a number. *)
LEMMA Uint16Type ==
  ASSUME DataOK, NEW c \in Conn, tx[c] = "payload"
  PROVE  Uint16(txBuf[c]) \in Nat
<1>1. txBuf[c] \in Seq(Byte) /\ Len(txBuf[c]) = 2
  BY DEF DataOK, frameSizeLen
<1>2. txBuf[c][1] \in Nat /\ txBuf[c][2] \in Nat
  BY <1>1, BaseAssumption DEF Byte
<1> QED
  BY <1>2, BaseAssumption DEF Uint16

(* What a step that leaves the sequences alone has to keep to. *)
LEMMA SameData ==
  ASSUME DataOK,
         stop' \in BOOLEAN,
         conn' \in [Conn -> {"none", "open", "cut", "closed"}],
         tap' \in [Conn -> {"none", "open", "closed"}],
         UNCHANGED <<txBuf, down, hostSent, delivered, rxBuf, up, appSent, frames>>,
         \A c \in Conn : tx'[c] = "payload" => tx[c] = "payload",
         faults' \in 0 .. MaxFaults
  PROVE  DataOK'
BY DEF DataOK

LEMMA RunData ==
  ASSUME IInv, DataOK,
         \/ Dial \/ CreateTap \/ Configure \/ SetupFails \/ SelectErr \/ SelectStop
         \/ Retry \/ Stop
  PROVE  DataOK'
<1>1. /\ UNCHANGED <<txBuf, down, hostSent, delivered, rxBuf, up, appSent, frames>>
      /\ tx' \in {tx, [tx EXCEPT ![cur] = "header"]}
      /\ UNCHANGED faults \/ Fault
      /\ stop' \in {stop, TRUE}
  BY Zenon DEF Dial, CreateTap, Configure, SetupFails, SelectErr, SelectStop, Retry, Stop,
     txVars, rxVars
<1>2. faults' \in 0 .. MaxFaults
  BY <1>1, BoundsAssumption DEF Fault, DataOK
<1>3. \A c \in Conn : tx'[c] = "payload" => tx[c] = "payload"
  BY <1>1 DEF IInv, ControlOK
<1>4. conn' \in [Conn -> {"none", "open", "cut", "closed"}]
  BY Zenon DEF Dial, CreateTap, Configure, SetupFails, SelectErr, SelectStop, Retry, Stop,
     CloseAll, DataOK
<1>5. tap' \in [Conn -> {"none", "open", "closed"}]
  BY Zenon DEF Dial, CreateTap, Configure, SetupFails, SelectErr, SelectStop, Retry, Stop,
     CloseAll, DataOK
<1>6. stop' \in BOOLEAN
  BY <1>1, Zenon DEF DataOK
<1> QED
  BY <1>1, <1>2, <1>3, <1>4, <1>5, <1>6, SameData

LEMMA TxData ==
  ASSUME IInv, DataOK, NEW c \in Conn, Tx(c)
  PROVE  DataOK'
<1> USE DEF runVars, rxVars
<1>1. CASE TxHeader(c)
  <2>1. ReadFull(c, frameSizeLen) /\ tx' = [tx EXCEPT ![c] = "payload"]
    BY <1>1 DEF TxHeader, TxGoes
  <2>2. /\ txBuf' \in [Conn -> Seq(Byte)] /\ down' \in [Conn -> Seq(Byte)]
        /\ Len(txBuf'[c]) = frameSizeLen
        /\ \A d \in Conn \ {c} : txBuf'[d] = txBuf[d]
    BY <2>1, ReadFullType, Zenon DEF frameSizeLen
  <2>3. ASSUME NEW d \in Conn \ {c}, tx'[d] = "payload"
        PROVE  Len(txBuf'[d]) = frameSizeLen
    <3>1. tx[d] = "payload"
      BY <2>1, <2>3 DEF IInv, ControlOK
    <3>2. Len(txBuf[d]) = frameSizeLen
      BY <3>1, Zenon DEF DataOK
    <3>3. txBuf'[d] = txBuf[d]
      BY <2>2
    <3> QED
      BY <3>2, <3>3
  <2>4. \A d \in Conn : tx'[d] = "payload" => Len(txBuf'[d]) = frameSizeLen
    BY <2>2, <2>3
  <2> QED
    BY <1>1, <2>2, <2>4 DEF TxHeader, DataOK
<1>2. CASE TxPayload(c)
  <2>1. /\ ReadFull(c, Uint16(txBuf[c])) /\ tx[c] = "payload"
        /\ tx' \in {[tx EXCEPT ![c] = "failed"], [tx EXCEPT ![c] = "write"]}
    BY <1>2, Zenon DEF TxPayload, TxGoes
  <2>2. /\ txBuf' \in [Conn -> Seq(Byte)] /\ down' \in [Conn -> Seq(Byte)]
        /\ \A d \in Conn \ {c} : txBuf'[d] = txBuf[d]
    BY <2>1, Uint16Type, ReadFullType
  <2>3. \A d \in Conn : tx'[d] = "payload" => Len(txBuf'[d]) = frameSizeLen
    BY <2>1, <2>2, Zenon DEF IInv, ControlOK, DataOK
  <2> QED
    BY <1>2, <2>2, <2>3 DEF TxPayload, DataOK
<1>3. CASE TxReadFails(c) \/ TxReports(c)
  <2>1. tx' \in {[tx EXCEPT ![c] = "failed"], [tx EXCEPT ![c] = "done"]}
    BY <1>3 DEF TxReadFails, TxReports, TxGoes
  <2>2. \A d \in Conn : tx'[d] = "payload" => tx[d] = "payload"
    BY <2>1 DEF IInv, ControlOK
  <2> QED
    BY <1>3, <2>2 DEF TxReadFails, TxReports, DataOK
<1>4. CASE TxWrite(c)
  <2>1. /\ tx' \in {[tx EXCEPT ![c] = "header"], [tx EXCEPT ![c] = "failed"]}
        /\ delivered' \in {delivered, [delivered EXCEPT ![c] = Append(@, txBuf[c])]}
    BY <1>4 DEF TxWrite, TxGoes
  <2>2. \A d \in Conn : tx'[d] = "payload" => tx[d] = "payload"
    BY <2>1 DEF IInv, ControlOK
  <2>3. delivered' \in [Conn -> Seq(Seq(Byte))]
    <3>1. delivered[c] \in Seq(Seq(Byte)) /\ txBuf[c] \in Seq(Byte)
      BY DEF DataOK
    <3>2. Append(delivered[c], txBuf[c]) \in Seq(Seq(Byte))
      BY <3>1
    <3> QED
      BY <2>1, <3>2, Zenon DEF DataOK
  <2> QED
    BY <1>4, <2>2, <2>3, Zenon DEF TxWrite, DataOK
<1> QED
  BY <1>1, <1>2, <1>3, <1>4 DEF Tx

LEMMA RxData ==
  ASSUME DataOK, NEW c \in Conn, Rx(c) \/ \E f \in Frame : RxRead(c, f)
  PROVE  DataOK'
<1> USE DEF runVars, txVars
<1>1. CASE RxReadFails(c) \/ RxReports(c)
  BY <1>1, Zenon DEF RxReadFails, RxReports, DataOK
<1>2. ASSUME NEW f \in Frame, RxRead(c, f)
      PROVE  DataOK'
  <2>1. /\ rxBuf' = [rxBuf EXCEPT ![c] = f]
        /\ appSent' = [appSent EXCEPT ![c] = Append(@, f)]
        /\ frames < MaxFrames /\ frames' = frames + 1
    BY <1>2 DEF RxRead, NewFrame
  <2>2. rxBuf' \in [Conn -> Seq(Byte)] /\ appSent' \in [Conn -> Seq(Seq(Byte))]
    BY <2>1, FrameType DEF DataOK
  <2>3. frames' \in 0 .. MaxFrames
    BY <2>1, BoundsAssumption DEF DataOK
  <2> QED
    BY <1>2, <2>2, <2>3 DEF RxRead, DataOK
<1>3. CASE RxWrite(c)
  <2> DEFINE bytes == PutUint16(Len(rxBuf[c])) \o rxBuf[c]
  <2>1. rxBuf[c] \in Seq(Byte) /\ up[c] \in Seq(Byte)
    BY DEF DataOK
  <2>2. bytes \in Seq(Byte)
    BY <2>1, HeaderType
  <2> HIDE DEF bytes
  <2>3. \A k \in 0 .. Len(bytes) - 1 : SubSeq(bytes, 1, k) \in Seq(Byte)
    BY <2>2
  <2>4. PICK more \in Seq(Byte) : up' = [up EXCEPT ![c] = @ \o more] \/ UNCHANGED up
    BY <1>3, <2>2, <2>3, Zenon DEF RxWrite, bytes
  <2>5. up' \in [Conn -> Seq(Byte)]
    <3>1. up[c] \o more \in Seq(Byte)
      BY <2>1
    <3> QED
      BY <2>4, <3>1, Zenon DEF DataOK
  <2> QED
    BY <1>3, <2>5, Zenon DEF RxWrite, DataOK
<1> QED
  BY <1>1, <1>2, <1>3 DEF Rx

LEMMA HostData ==
  ASSUME IInv, DataOK, NEW c \in Conn,
         \/ Cut(c) \/ TapFails(c)
         \/ \E f \in Frame \cup {<<>>} : HostSends(c, f)
  PROVE  DataOK'
<1>1. faults' \in 0 .. MaxFaults
  <2>1. UNCHANGED faults \/ (faults < MaxFaults /\ faults' = faults + 1)
    BY Zenon DEF Cut, TapFails, HostSends, Fault
  <2> QED
    BY <2>1, BoundsAssumption DEF DataOK
<1>2. CASE Cut(c)
  <2>1. down[c] \in Seq(Byte)
    BY DEF DataOK
  <2>2. PICK k \in 0 .. Len(down[c]) : down' = [down EXCEPT ![c] = SubSeq(@, 1, k)]
    BY <1>2, Zenon DEF Cut
  <2>3. SubSeq(down[c], 1, k) \in Seq(Byte)
    BY <2>1
  <2>4. down' \in [Conn -> Seq(Byte)]
    BY <2>2, <2>3 DEF DataOK
  <2>5. conn' \in [Conn -> {"none", "open", "cut", "closed"}]
    BY <1>2, SMTT(30) DEF Cut, DataOK
  <2> QED
    BY <1>1, <1>2, <2>4, <2>5, Zenon DEF Cut, DataOK, rxVars
<1>3. CASE TapFails(c)
  <2>1. tx' \in {tx, [tx EXCEPT ![c] = "failed"]}
    BY <1>3 DEF TapFails, TxGoes
  <2>2. \A d \in Conn : tx'[d] = "payload" => tx[d] = "payload"
    BY <2>1 DEF IInv, ControlOK
  <2> QED
    BY <1>1, <1>3, <2>2, SMTT(30) DEF TapFails, DataOK, runVars
<1>4. ASSUME NEW f \in Frame \cup {<<>>}, HostSends(c, f)
      PROVE  DataOK'
  <2> DEFINE header == <<Len(f) % Base, Len(f) \div Base>>
  <2>1. f \in Seq(Byte) /\ header \in Seq(Byte)
    BY FrameType
  <2> HIDE DEF header
  <2>2. down' = [down EXCEPT ![c] = @ \o header \o f]
    BY <1>4 DEF HostSends, header
  <2>3. down' \in [Conn -> Seq(Byte)]
    BY <2>1, <2>2 DEF DataOK
  <2>4. hostSent' \in [Conn -> Seq(Seq(Byte))]
    BY <1>4, <2>1 DEF HostSends, DataOK
  <2>5. frames' \in 0 .. MaxFrames
    BY <1>4, BoundsAssumption DEF HostSends, NewFrame, DataOK
  <2> QED
    BY <1>1, <1>4, <2>3, <2>4, <2>5, Zenon DEF HostSends, DataOK, runVars, rxVars
<1> QED
  BY <1>2, <1>3, <1>4

(* Type correctness; in particular no errCh ever holds two errors. *)
THEOREM TypeCorrectness == Spec => []TypeOK
<1>1. ASSUME Init PROVE DataOK
  <2>1. <<>> \in Seq(Byte) /\ <<>> \in Seq(Seq(Byte))
    OBVIOUS
  <2>2. /\ txBuf \in [Conn -> Seq(Byte)] /\ rxBuf \in [Conn -> Seq(Byte)]
        /\ down \in [Conn -> Seq(Byte)] /\ up \in [Conn -> Seq(Byte)]
        /\ hostSent \in [Conn -> Seq(Seq(Byte))]
        /\ delivered \in [Conn -> Seq(Seq(Byte))]
        /\ appSent \in [Conn -> Seq(Seq(Byte))]
    BY <1>1, <2>1, Zenon DEF Init
  <2>3. /\ conn \in [Conn -> {"none", "open", "cut", "closed"}]
        /\ tap \in [Conn -> {"none", "open", "closed"}]
        /\ \A c \in Conn : tx[c] # "payload"
    BY <1>1 DEF Init
  <2>4. stop \in BOOLEAN
    BY <1>1, Zenon DEF Init
  <2>5. frames \in 0 .. MaxFrames /\ faults \in 0 .. MaxFaults
    BY <1>1, BoundsAssumption DEF Init
  <2> QED
    BY <2>2, <2>3, <2>4, <2>5, Zenon DEF DataOK
<1>2. IInv /\ DataOK /\ [Next]_vars => DataOK'
  <2> SUFFICES ASSUME IInv, DataOK, [Next]_vars PROVE DataOK'
    OBVIOUS
  <2>1. CASE UNCHANGED vars
    BY <2>1, SameData, SMTT(30) DEF vars, runVars, txVars, rxVars, DataOK
  <2> QED
    BY <2>1, RunData, TxData, RxData, HostData DEF Next, Setup
<1>3. IInv /\ DataOK => TypeOK
  BY DEF IInv, ControlOK, DataOK, TypeOK
<1> QED
  BY <1>1, <1>2, <1>3, Invariance, PTL DEF Spec

-----------------------------------------------------------------------------
(* Induction over the natural numbers. *)

(* A set of natural numbers that is not empty has a least element. *)
LEMMA Least ==
  ASSUME NEW T, T \subseteq Nat, T # {}
  PROVE  \E n \in T : \A m \in T : n <= m
<1> DEFINE Less == {p \in Nat \X Nat : p[1] < p[2]}
<1>1. IsWellFoundedOn(Less, Nat)
  BY NatLessThanWellFounded DEF OpToRel
<1>2. PICK n \in T : \A m \in T : ~(<<m, n>> \in Less)
  BY <1>1, WFMin, Zenon
<1>3. ASSUME NEW m \in T PROVE n <= m
  <2>1. <<m, n>> \in Less <=> m < n
    OBVIOUS
  <2>2. m \in Nat /\ n \in Nat
    OBVIOUS
  <2> QED
    BY <1>2, <2>1, <2>2
<1> QED
  BY <1>3

(* Induction, for the set of the numbers that a statement holds for. *)
LEMMA SetInduction ==
  ASSUME NEW S, 0 \in S, \A n \in Nat : n \in S => n + 1 \in S
  PROVE  \A n \in Nat : n \in S
<1> SUFFICES ASSUME NEW m \in Nat, m \notin S PROVE FALSE
  OBVIOUS
<1>1. PICK n \in Nat \ S : \A k \in Nat \ S : n <= k
  BY Least, Zenon
<1>2. n - 1 \in Nat /\ n - 1 \in S
  BY <1>1
<1> QED
  BY <1>1, <1>2

-----------------------------------------------------------------------------
(* The function that Decoded chooses exists: its value at byte i depends on *)
(* its values behind i only.                                                *)

(* The frames from byte i on, if f gives those behind the first of them. *)
FramesFrom(bytes, f, i) ==
  IF Incomplete(bytes, i) THEN <<>>
  ELSE <<SubSeq(bytes, i + 2, LastAt(bytes, i))>> \o f[LastAt(bytes, i) + 1]

Decodes(bytes, f) == f = [i \in 1 .. Len(bytes) + 1 |-> FramesFrom(bytes, f, i)]

(* A complete frame ends behind its header and within the bytes. *)
LEMMA LastAtBounds ==
  ASSUME NEW bytes \in Seq(Byte), NEW i \in 1 .. Len(bytes) + 1, ~Incomplete(bytes, i)
  PROVE  LastAt(bytes, i) \in i + 1 .. Len(bytes)
<1>1. i \in 1 .. Len(bytes) /\ i + 1 \in 1 .. Len(bytes)
  BY DEF Incomplete
<1>2. bytes[i] \in Nat /\ bytes[i + 1] \in Nat
  BY <1>1, BaseAssumption DEF Byte
<1>3. Base * bytes[i + 1] \in Nat
  BY <1>2, BaseAssumption
<1>4. LastAt(bytes, i) \in Nat /\ LastAt(bytes, i) >= i + 1
  BY <1>1, <1>2, <1>3 DEF LastAt
<1> QED
  BY <1>1, <1>4 DEF Incomplete

LEMMA DecoderExists ==
  ASSUME NEW bytes \in Seq(Byte)
  PROVE  \E f : Decodes(bytes, f)
<1> DEFINE N == Len(bytes)
           Rest(n) == {i \in 1 .. N + 1 : i >= N + 1 - n}
           Good(n) == \E f : f = [i \in Rest(n) |-> FramesFrom(bytes, f, i)]
           S == {n \in Nat : Good(n)}
<1>1. N \in Nat
  OBVIOUS
<1> HIDE DEF N
<1>2. 0 \in S
  <2> DEFINE f == [i \in Rest(0) |-> <<>>]
  <2>1. \A i \in Rest(0) : FramesFrom(bytes, f, i) = <<>>
    <3> SUFFICES ASSUME NEW i \in Rest(0) PROVE Incomplete(bytes, i)
      BY DEF FramesFrom
    <3> QED
      BY <1>1 DEF Incomplete, N
  <2> HIDE DEF Rest
  <2>2. f = [i \in Rest(0) |-> FramesFrom(bytes, f, i)]
    BY <2>1
  <2> QED
    BY <2>2
<1>3. ASSUME NEW n \in Nat, n \in S PROVE n + 1 \in S
  <2>1. PICK f : f = [i \in Rest(n) |-> FramesFrom(bytes, f, i)]
    BY <1>3, Zenon
  <2> DEFINE g == [i \in Rest(n + 1) |-> FramesFrom(bytes, f, i)]
  <2>2. ASSUME NEW i \in Rest(n + 1), ~Incomplete(bytes, i)
        PROVE  LastAt(bytes, i) + 1 \in Rest(n)
    <3>1. i \in 1 .. N + 1 /\ i >= N - n
      BY <1>1
    <3>2. LastAt(bytes, i) \in i + 1 .. N
      BY <2>2, <3>1, LastAtBounds DEF N
    <3> QED
      BY <1>1, <3>1, <3>2
  <2>3. Rest(n) \subseteq Rest(n + 1)
    BY <1>1
  <2> HIDE DEF Rest
  <2>4. \A i \in Rest(n) : g[i] = f[i]
    BY <2>1, <2>3
  <2> HIDE DEF g
  <2>5. \A i \in Rest(n + 1) : FramesFrom(bytes, f, i) = FramesFrom(bytes, g, i)
    BY <2>2, <2>4 DEF FramesFrom
  <2>6. g = [i \in Rest(n + 1) |-> FramesFrom(bytes, g, i)]
    BY <2>5 DEF g
  <2> QED
    BY <2>6
<1>4. N \in S
  <2> HIDE DEF S
  <2> QED
    BY <1>1, <1>2, <1>3, SetInduction
<1>5. Rest(N) = 1 .. N + 1
  BY <1>1
<1>6. PICK f : f = [i \in Rest(N) |-> FramesFrom(bytes, f, i)]
  BY <1>4, Zenon
<1> QED
  BY <1>5, <1>6, Zenon DEF Decodes, N

(* What Decoded computes: the value at the first byte of such a function. *)
LEMMA DecodedUnfolds ==
  ASSUME NEW bytes \in Seq(Byte)
  PROVE  \E f : Decodes(bytes, f) /\ Decoded(bytes) = f[1]
<1>1. Decoded(bytes) = (CHOOSE f : Decodes(bytes, f))[1]
  BY DEF Decoded, Decodes, FramesFrom
<1> QED
  BY <1>1, DecoderExists, Zenon

-----------------------------------------------------------------------------
(* The bytes of a sequence of frames. *)

(* A frame with its header, and the frames that have one. *)
Encoded(f) == PutUint16(Len(f)) \o f
Wire == {f \in Seq(Byte) : Len(f) <= frameLen}

(* at[i] is where frame i starts, counted from the first of the bytes. *)
Positions(fs, at) ==
  /\ at \in [1 .. Len(fs) + 1 -> Int]
  /\ \A i \in 1 .. Len(fs) : at[i + 1] = at[i] + 2 + Len(fs[i])
  /\ \A i, k \in 1 .. Len(fs) + 1 : i < k => at[i] + 2 <= at[k]

(* The bytes agree with the frames, as far as they go. *)
Carries(bytes, fs, at) ==
  /\ Positions(fs, at)
  /\ Len(bytes) < at[Len(fs) + 1]
  /\ \A i \in 1 .. Len(fs) : \A j \in 1 .. Len(fs[i]) + 2 :
       at[i] + j - 1 \in 1 .. Len(bytes) => bytes[at[i] + j - 1] = Encoded(fs[i])[j]

(* The elements of two sequences of bytes, one after the other. *)
LEMMA Joined ==
  ASSUME NEW a \in Seq(Byte), NEW b \in Seq(Byte)
  PROVE  /\ a \o b \in Seq(Byte) /\ Len(a \o b) = Len(a) + Len(b)
         /\ \A i \in 1 .. Len(a) : (a \o b)[i] = a[i]
         /\ \A j \in 1 .. Len(b) : (a \o b)[Len(a) + j] = b[j]
OBVIOUS

(* The elements of a part of a sequence. *)
LEMMA Slice ==
  ASSUME NEW s \in Seq(Byte), NEW a \in Int, NEW z \in Int,
         a >= 1, z <= Len(s), a <= z + 1
  PROVE  /\ SubSeq(s, a, z) \in Seq(Byte) /\ Len(SubSeq(s, a, z)) = z - a + 1
         /\ \A j \in 1 .. z - a + 1 : SubSeq(s, a, z)[j] = s[a + j - 1]
OBVIOUS

(* Sequences with the same elements are equal. *)
LEMMA SameElements ==
  ASSUME NEW S, NEW s \in Seq(S), NEW t \in Seq(S), Len(s) = Len(t),
         \A i \in 1 .. Len(s) : s[i] = t[i]
  PROVE  s = t
OBVIOUS

(* A sequence is all of itself. *)
LEMMA Whole ==
  ASSUME NEW s \in Seq(Byte)
  PROVE  SubSeq(s, 1, Len(s)) = s
<1>1. Len(s) \in Int /\ Len(s) >= 0
  OBVIOUS
<1>2. /\ SubSeq(s, 1, Len(s)) \in Seq(Byte) /\ Len(SubSeq(s, 1, Len(s))) = Len(s)
      /\ \A j \in 1 .. Len(s) : SubSeq(s, 1, Len(s))[j] = s[j]
  BY <1>1, Slice
<1> QED
  BY <1>2, SameElements

LEMMA JoinedAssociative ==
  ASSUME NEW a \in Seq(Byte), NEW b \in Seq(Byte), NEW d \in Seq(Byte)
  PROVE  a \o b \o d = a \o (b \o d)
OBVIOUS

(* A frame with its header. *)
LEMMA EncodedType ==
  ASSUME NEW f \in Wire
  PROVE  /\ f \in Seq(Byte) /\ Len(f) \in 0 .. frameLen
         /\ Encoded(f) \in Seq(Byte) /\ Len(Encoded(f)) = Len(f) + 2
         /\ Encoded(f)[1] = PutUint16(Len(f))[1]
         /\ Encoded(f)[2] = PutUint16(Len(f))[2]
         /\ \A j \in 1 .. Len(f) : Encoded(f)[j + 2] = f[j]
<1>1. f \in Seq(Byte) /\ Len(f) \in Nat /\ Len(f) \in 0 .. frameLen
  BY HeaderLimit DEF Wire
<1> DEFINE h == PutUint16(Len(f))
<1>2. h \in Seq(Byte) /\ Len(h) = 2
  BY <1>1, HeaderType
<1> HIDE DEF h
<1>3. Encoded(f) = h \o f
  BY DEF Encoded, h
<1>4. /\ h \o f \in Seq(Byte) /\ Len(h \o f) = Len(h) + Len(f)
      /\ \A i \in 1 .. Len(h) : (h \o f)[i] = h[i]
      /\ \A j \in 1 .. Len(f) : (h \o f)[Len(h) + j] = f[j]
  BY <1>1, <1>2, Joined, Zenon
<1>5. /\ Encoded(f) \in Seq(Byte) /\ Len(Encoded(f)) = Len(f) + 2
      /\ Encoded(f)[1] = h[1] /\ Encoded(f)[2] = h[2]
  BY <1>1, <1>2, <1>3, <1>4
<1>6. \A j \in 1 .. Len(f) : Encoded(f)[j + 2] = f[j]
  BY <1>1, <1>2, <1>3, <1>4
<1> QED
  BY <1>1, <1>5, <1>6 DEF h

(* The frames of a sequence of frames. *)
LEMMA WireAt ==
  ASSUME NEW fs \in Seq(Wire), NEW i \in 1 .. Len(fs)
  PROVE  /\ fs[i] \in Wire /\ fs[i] \in Seq(Byte) /\ Len(fs[i]) \in Nat
         /\ \A j \in 1 .. Len(fs[i]) : Encoded(fs[i])[j + 2] = fs[i][j]
<1>1. fs[i] \in Wire
  OBVIOUS
<1>2. fs[i] \in Seq(Byte)
  BY <1>1, EncodedType, Zenon
<1>3. Len(fs[i]) \in Nat
  BY <1>2
<1>4. \A j \in 1 .. Len(fs[i]) : Encoded(fs[i])[j + 2] = fs[i][j]
  BY <1>1, EncodedType, Zenon
<1> QED
  BY <1>1, <1>2, <1>3, <1>4

(* The positions are numbers; the last one is behind the bytes. *)
LEMMA PositionsType ==
  ASSUME NEW bytes \in Seq(Byte), NEW fs \in Seq(Wire), NEW at, Carries(bytes, fs, at)
  PROVE  /\ Len(fs) \in Nat /\ Len(bytes) \in Nat
         /\ \A i \in 1 .. Len(fs) + 1 : at[i] \in Int
         /\ Len(bytes) < at[Len(fs) + 1]
         /\ \A i \in 1 .. Len(fs) : at[i + 1] = at[i] + 2 + Len(fs[i])
         /\ \A i, k \in 1 .. Len(fs) + 1 : i < k => at[i] + 2 <= at[k]
<1>1. Positions(fs, at) /\ Len(bytes) < at[Len(fs) + 1]
  BY DEF Carries
<1>2. /\ \A i \in 1 .. Len(fs) : at[i + 1] = at[i] + 2 + Len(fs[i])
      /\ \A i, k \in 1 .. Len(fs) + 1 : i < k => at[i] + 2 <= at[k]
  BY <1>1, Zenon DEF Positions
<1>3. \A i \in 1 .. Len(fs) + 1 : at[i] \in Int
  BY <1>1, Zenon DEF Positions
<1> QED
  BY <1>1, <1>2, <1>3

(* Fewer bytes carry the same frames: what Cut leaves. *)
LEMMA CarriesPrefix ==
  ASSUME NEW bytes \in Seq(Byte), NEW fs \in Seq(Wire), NEW at,
         Carries(bytes, fs, at), NEW k \in 0 .. Len(bytes)
  PROVE  Carries(SubSeq(bytes, 1, k), fs, at)
<1> DEFINE b == SubSeq(bytes, 1, k)
<1>1. /\ Len(b) = k /\ k <= Len(bytes) /\ Len(bytes) \in Nat /\ Len(fs) \in Nat
      /\ \A n \in 1 .. k : b[n] = bytes[n] /\ n \in 1 .. Len(bytes)
  OBVIOUS
<1> HIDE DEF b
<1>2. Len(b) < at[Len(fs) + 1]
  <2>1. at[Len(fs) + 1] \in Int /\ Len(bytes) < at[Len(fs) + 1]
    BY <1>1 DEF Carries, Positions
  <2> QED
    BY <1>1, <2>1
<1>3. ASSUME NEW i \in 1 .. Len(fs), NEW j \in 1 .. Len(fs[i]) + 2,
             at[i] + j - 1 \in 1 .. Len(b)
      PROVE  b[at[i] + j - 1] = Encoded(fs[i])[j]
  BY <1>1, <1>3 DEF Carries
<1> QED
  BY <1>2, <1>3 DEF Carries, b

(* The first n bytes are read: the positions move. *)
LEMMA CarriesRest ==
  ASSUME NEW bytes \in Seq(Byte), NEW fs \in Seq(Wire), NEW at,
         Carries(bytes, fs, at), NEW n \in 0 .. Len(bytes)
  PROVE  /\ Carries(SubSeq(bytes, n + 1, Len(bytes)), fs,
                    [i \in 1 .. Len(fs) + 1 |-> at[i] - n])
         /\ Len(SubSeq(bytes, n + 1, Len(bytes))) = Len(bytes) - n
<1> DEFINE b == SubSeq(bytes, n + 1, Len(bytes))
           moved == [i \in 1 .. Len(fs) + 1 |-> at[i] - n]
<1>1. /\ Len(b) = Len(bytes) - n /\ Len(bytes) \in Nat /\ Len(fs) \in Nat /\ n \in Nat
      /\ \A m \in 1 .. Len(b) : b[m] = bytes[m + n] /\ m + n \in 1 .. Len(bytes)
  OBVIOUS
<1>2. \A i \in 1 .. Len(fs) + 1 : at[i] \in Int /\ moved[i] = at[i] - n
  BY DEF Carries, Positions
<1>3. \A i \in 1 .. Len(fs) : Len(fs[i]) \in Nat
  BY EncodedType
<1> HIDE DEF b
<1>4. Positions(fs, moved)
  <2>1. moved \in [1 .. Len(fs) + 1 -> Int]
    BY <1>1, <1>2
  <2> HIDE DEF moved
  <2>2. ASSUME NEW i \in 1 .. Len(fs)
        PROVE  moved[i + 1] = moved[i] + 2 + Len(fs[i])
    <3>1. i \in 1 .. Len(fs) + 1 /\ i + 1 \in 1 .. Len(fs) + 1
      BY <1>1
    <3>2. at[i + 1] = at[i] + 2 + Len(fs[i])
      BY DEF Carries, Positions
    <3>3. at[i] \in Int /\ moved[i] = at[i] - n /\ moved[i + 1] = at[i + 1] - n
      BY <1>2, <3>1
    <3>4. n \in Int /\ Len(fs[i]) \in Int
      BY <1>3
    <3> QED
      BY <3>2, <3>3, <3>4, SMTT(30)
  <2>3. ASSUME NEW i \in 1 .. Len(fs) + 1, NEW k \in 1 .. Len(fs) + 1, i < k
        PROVE  moved[i] + 2 <= moved[k]
    <3>1. at[i] + 2 <= at[k]
      BY <2>3 DEF Carries, Positions
    <3> QED
      BY <1>1, <1>2, <3>1, SMTT(30)
  <2> QED
    BY <2>1, <2>2, <2>3 DEF Positions
<1> HIDE DEF moved
<1>5. Len(b) < moved[Len(fs) + 1]
  <2>1. Len(bytes) < at[Len(fs) + 1] /\ Len(fs) + 1 \in 1 .. Len(fs) + 1
    BY <1>1 DEF Carries
  <2> QED
    BY <1>1, <1>2, <2>1
<1>6. ASSUME NEW i \in 1 .. Len(fs), NEW j \in 1 .. Len(fs[i]) + 2,
             moved[i] + j - 1 \in 1 .. Len(b)
      PROVE  b[moved[i] + j - 1] = Encoded(fs[i])[j]
  <2>1. /\ i \in 1 .. Len(fs) + 1 /\ j \in Nat /\ at[i] \in Int
        /\ moved[i] + j - 1 + n = at[i] + j - 1
    BY <1>1, <1>2, <1>3
  <2>2. b[moved[i] + j - 1] = bytes[at[i] + j - 1] /\ at[i] + j - 1 \in 1 .. Len(bytes)
    BY <1>1, <1>6, <2>1, Zenon
  <2> QED
    BY <2>2 DEF Carries
<1> QED
  BY <1>1, <1>4, <1>5, <1>6, Zenon DEF Carries, b, moved

(* One more frame, of which no byte is there yet. *)
LEMMA CarriesNewFrame ==
  ASSUME NEW bytes \in Seq(Byte), NEW fs \in Seq(Wire), NEW at,
         Carries(bytes, fs, at), NEW f \in Wire
  PROVE  \E more : /\ Carries(bytes, Append(fs, f), more)
                   /\ \A i \in 1 .. Len(fs) + 1 : more[i] = at[i]
<1> DEFINE n == Len(fs)
           gs == Append(fs, f)
           more == [i \in 1 .. n + 2 |-> IF i = n + 2 THEN at[n + 1] + 2 + Len(f) ELSE at[i]]
<1>1. /\ n \in Nat /\ Len(gs) = n + 1 /\ gs[n + 1] = f
      /\ \A i \in 1 .. n : gs[i] = fs[i]
  OBVIOUS
<1>2. Len(f) \in Nat /\ Len(bytes) \in Nat
  BY EncodedType
<1>3. /\ \A i \in 1 .. n + 1 : at[i] \in Int
      /\ \A i \in 1 .. n : at[i + 1] = at[i] + 2 + Len(fs[i])
      /\ \A i, k \in 1 .. n + 1 : i < k => at[i] + 2 <= at[k]
      /\ Len(bytes) < at[n + 1]
  BY DEF Carries, Positions
<1> HIDE DEF n, gs
<1>4. /\ \A i \in 1 .. n + 1 : more[i] = at[i]
      /\ more[n + 2] = at[n + 1] + 2 + Len(f)
  BY <1>1
<1>5. more \in [1 .. Len(gs) + 1 -> Int]
  <2>1. ASSUME NEW i \in 1 .. n + 2
        PROVE  (IF i = n + 2 THEN at[n + 1] + 2 + Len(f) ELSE at[i]) \in Int
    BY <1>1, <1>2, <1>3
  <2>2. more \in [1 .. n + 2 -> Int]
    BY <2>1
  <2>3. Len(gs) + 1 = n + 2
    BY <1>1
  <2> QED
    BY <2>2, <2>3
<1> HIDE DEF more
<1>6. ASSUME NEW i \in 1 .. Len(gs) PROVE more[i + 1] = more[i] + 2 + Len(gs[i])
  <2>1. CASE i = n + 1
    BY <1>1, <1>4, <2>1
  <2>2. CASE i \in 1 .. n
    <3>1. i \in 1 .. n + 1 /\ i + 1 \in 1 .. n + 1
      BY <1>1, <2>2
    <3>2. more[i + 1] = at[i + 1] /\ more[i] = at[i] /\ gs[i] = fs[i]
      BY <1>1, <1>4, <2>2, <3>1
    <3>3. at[i + 1] = at[i] + 2 + Len(fs[i])
      BY <1>3, <2>2
    <3> QED
      BY <3>2, <3>3
  <2> QED
    BY <1>1, <2>1, <2>2
<1>7. ASSUME NEW i \in 1 .. Len(gs) + 1, NEW k \in 1 .. Len(gs) + 1, i < k
      PROVE  more[i] + 2 <= more[k]
  <2>1. i \in 1 .. n + 1 /\ more[i] = at[i] /\ at[i] \in Int
    BY <1>1, <1>3, <1>4, <1>7
  <2>2. CASE k \in 1 .. n + 1
    <3>1. more[k] = at[k] /\ at[i] + 2 <= at[k]
      BY <1>3, <1>4, <1>7, <2>1, <2>2
    <3> QED
      BY <2>1, <3>1
  <2>3. CASE k = n + 2
    <3>1. i = n + 1 \/ at[i] + 2 <= at[n + 1]
      BY <1>1, <1>3, <2>1
    <3>2. at[n + 1] \in Int /\ more[k] = at[n + 1] + 2 + Len(f)
      BY <1>1, <1>3, <1>4, <2>3
    <3> QED
      BY <1>2, <2>1, <3>1, <3>2, SMTT(30)
  <2> QED
    BY <1>1, <2>2, <2>3
<1>8. Len(bytes) < more[Len(gs) + 1]
  <2>1. more[Len(gs) + 1] = at[n + 1] + 2 + Len(f) /\ at[n + 1] \in Int
    BY <1>1, <1>3, <1>4
  <2> QED
    BY <1>2, <1>3, <2>1
<1>9. ASSUME NEW i \in 1 .. Len(gs), NEW j \in 1 .. Len(gs[i]) + 2,
             more[i] + j - 1 \in 1 .. Len(bytes)
      PROVE  bytes[more[i] + j - 1] = Encoded(gs[i])[j]
  <2>1. CASE i = n + 1
    <3>1. more[i] = at[n + 1] /\ at[n + 1] \in Int /\ j \in Int /\ j >= 1
      BY <1>1, <1>2, <1>3, <1>4, <2>1
    <3> QED
      BY <1>2, <1>3, <1>9, <3>1
  <2>2. CASE i \in 1 .. n
    <3>1. more[i] = at[i] /\ gs[i] = fs[i]
      BY <1>1, <1>4, <2>2
    <3> QED
      BY <1>9, <2>2, <3>1 DEF Carries, n
  <2> QED
    BY <1>1, <2>1, <2>2
<1>10. Carries(bytes, gs, more)
  BY <1>5, <1>6, <1>7, <1>8, <1>9 DEF Carries, Positions
<1> QED
  BY <1>4, <1>10 DEF n, gs

(* The first k bytes of the last frame arrive. *)
LEMMA CarriesMore ==
  ASSUME NEW bytes \in Seq(Byte), NEW fs \in Seq(Wire), NEW at,
         Carries(bytes, fs, at), fs # <<>>, at[Len(fs)] = Len(bytes) + 1,
         NEW k \in 0 .. Len(fs[Len(fs)]) + 2
  PROVE  /\ Carries(bytes \o SubSeq(Encoded(fs[Len(fs)]), 1, k), fs, at)
         /\ bytes \o SubSeq(Encoded(fs[Len(fs)]), 1, k) \in Seq(Byte)
         /\ Len(bytes \o SubSeq(Encoded(fs[Len(fs)]), 1, k)) = Len(bytes) + k
<1> DEFINE n == Len(fs)
           new == SubSeq(Encoded(fs[n]), 1, k)
           b == bytes \o new
           L == Len(bytes)
<1>1. n \in Nat /\ n >= 1 /\ n \in 1 .. Len(fs) /\ fs[n] \in Wire
  OBVIOUS
<1>2. Encoded(fs[n]) \in Seq(Byte) /\ Len(Encoded(fs[n])) = Len(fs[n]) + 2 /\ Len(fs[n]) \in Nat
  BY <1>1, EncodedType
<1>3. /\ new \in Seq(Byte) /\ Len(new) = k
      /\ \A j \in 1 .. k : new[j] = Encoded(fs[n])[j]
  BY <1>2
<1> HIDE DEF new
<1>4. /\ b \in Seq(Byte) /\ Len(b) = L + k
      /\ \A m \in 1 .. L : b[m] = bytes[m]
      /\ \A j \in 1 .. k : b[L + j] = new[j]
  BY <1>3, Joined, Zenon
<1>5. /\ \A i \in 1 .. n + 1 : at[i] \in Int
      /\ \A i \in 1 .. n : at[i + 1] = at[i] + 2 + Len(fs[i])
      /\ at[n] = L + 1
      /\ L \in Nat
  <2>1. Positions(fs, at)
    BY DEF Carries
  <2>2. \A i \in 1 .. n + 1 : at[i] \in Int
    BY <2>1, Zenon DEF Positions
  <2>3. \A i \in 1 .. n : at[i + 1] = at[i] + 2 + Len(fs[i])
    BY <2>1, Zenon DEF Positions
  <2> QED
    BY <2>2, <2>3
<1> HIDE DEF b, L
<1>6. Len(b) < at[Len(fs) + 1]
  <2> DEFINE l == Len(fs[n])
  <2>1. at[n + 1] = L + 1 + 2 + l
    BY <1>1, <1>5, Zenon
  <2>2. k \in Nat /\ l \in Nat /\ k <= l + 2
    BY <1>2
  <2> HIDE DEF l
  <2>3. L + k < L + 1 + 2 + l
    BY <1>5, <2>2
  <2> QED
    BY <1>4, <2>1, <2>3
<1>7. ASSUME NEW i \in 1 .. n, NEW j \in 1 .. Len(fs[i]) + 2,
             at[i] + j - 1 \in 1 .. Len(b)
      PROVE  b[at[i] + j - 1] = Encoded(fs[i])[j]
  <2> DEFINE l == Len(fs[i])
             a == at[i]
  <2>1. l \in Nat /\ a \in Int /\ j \in Nat /\ j >= 1 /\ j <= l + 2
    BY <1>1, <1>5, EncodedType, SMTT(30) DEF n
  <2>2. a + j - 1 \in 1 .. L + k
    BY <1>4, <1>7
  <2>3. CASE i = n
    <3>1. a = L + 1
      BY <1>5, <2>3
    <3> HIDE DEF l, a
    <3>2. a + j - 1 = L + j
      BY <1>5, <2>1, <3>1
    <3>3. j \in 1 .. k
      BY <1>5, <2>1, <2>2, <3>1
    <3> QED
      BY <1>3, <1>4, <2>3, <3>2, <3>3 DEF a
  <2>4. CASE i # n
    <3> DEFINE z == at[i + 1]
    <3>1. i + 1 \in 1 .. n /\ i + 1 \in 1 .. n + 1 /\ n \in 1 .. n + 1
      BY <1>1, <2>4
    <3>2. z = a + 2 + l /\ z \in Int
      BY <1>5, <3>1
    <3>3. i + 1 = n \/ z + 2 <= at[n]
      BY <1>1, <3>1 DEF Carries, Positions, n
    <3> HIDE DEF l, a, z
    <3>4. z <= L + 1
      BY <1>5, <3>2, <3>3 DEF z
    <3>5. a + j - 1 \in 1 .. L
      BY <1>5, <2>1, <2>2, <3>2, <3>4
    <3>6. bytes[a + j - 1] = Encoded(fs[i])[j]
      BY <3>5 DEF Carries, n, L, a
    <3> QED
      BY <1>4, <3>5, <3>6 DEF a
  <2> QED
    BY <2>3, <2>4
<1>8. Carries(b, fs, at)
  BY <1>6, <1>7 DEF Carries, n
<1> QED
  BY <1>4, <1>8 DEF b, new, n, L

(* A frame's header, where all of it has arrived. *)
LEMMA HeaderAt ==
  ASSUME NEW bytes \in Seq(Byte), NEW fs \in Seq(Wire), NEW at,
         Carries(bytes, fs, at), NEW i \in 1 .. Len(fs),
         at[i] >= 1, at[i] + 1 <= Len(bytes)
  PROVE  /\ bytes[at[i]] = PutUint16(Len(fs[i]))[1]
         /\ bytes[at[i] + 1] = PutUint16(Len(fs[i]))[2]
         /\ LastAt(bytes, at[i]) = at[i + 1] - 1
<1>1. /\ fs[i] \in Wire /\ Len(fs[i]) \in Nat /\ Len(fs[i]) \in 0 .. frameLen
      /\ Encoded(fs[i])[1] = PutUint16(Len(fs[i]))[1]
      /\ Encoded(fs[i])[2] = PutUint16(Len(fs[i]))[2]
  BY EncodedType, HeaderLimit
<1>2. /\ at[i] \in Int /\ at[i + 1] = at[i] + 2 + Len(fs[i])
      /\ Len(bytes) \in Nat
  BY DEF Carries, Positions
<1>3. bytes[at[i] + 1 - 1] = Encoded(fs[i])[1] /\ bytes[at[i] + 2 - 1] = Encoded(fs[i])[2]
  <2>1. 1 \in 1 .. Len(fs[i]) + 2 /\ 2 \in 1 .. Len(fs[i]) + 2
    BY <1>1
  <2>2. at[i] + 1 - 1 \in 1 .. Len(bytes) /\ at[i] + 2 - 1 \in 1 .. Len(bytes)
    BY <1>2
  <2> QED
    BY <2>1, <2>2 DEF Carries
<1>4. at[i] + 1 - 1 = at[i] /\ at[i] + 2 - 1 = at[i] + 1
  BY <1>2
<1>5. /\ bytes[at[i]] = PutUint16(Len(fs[i]))[1]
      /\ bytes[at[i] + 1] = PutUint16(Len(fs[i]))[2]
  BY <1>1, <1>3, <1>4
<1>6. bytes[at[i]] + Base * bytes[at[i] + 1] = Len(fs[i])
  BY <1>1, <1>5, HeaderRoundTrip DEF Uint16
<1>7. bytes[at[i]] \in Int /\ bytes[at[i] + 1] \in Int
  <2>1. at[i] \in 1 .. Len(bytes) /\ at[i] + 1 \in 1 .. Len(bytes)
    BY <1>2
  <2> QED
    BY <2>1, BaseAssumption, SMTT(30) DEF Byte
<1>8. Base * bytes[at[i] + 1] \in Int
  BY <1>7, BaseAssumption
<1>9. LastAt(bytes, at[i]) = at[i] + 1 + Len(fs[i])
  BY <1>2, <1>6, <1>7, <1>8 DEF LastAt
<1> QED
  BY <1>1, <1>2, <1>5, <1>9

(* A frame, where all of it has arrived. *)
LEMMA PayloadAt ==
  ASSUME NEW bytes \in Seq(Byte), NEW fs \in Seq(Wire), NEW at,
         Carries(bytes, fs, at), NEW i \in 1 .. Len(fs),
         at[i] + 2 >= 1, at[i + 1] <= Len(bytes) + 1
  PROVE  SubSeq(bytes, at[i] + 2, at[i + 1] - 1) = fs[i]
<1> DEFINE x == at[i]
           y == at[i + 1]
           n == Len(fs[i])
           L == Len(bytes)
           a == x + 2
           z == y - 1
           p == SubSeq(bytes, a, z)
<1>1. /\ fs[i] \in Seq(Byte) /\ n \in Nat
      /\ \A j \in 1 .. n : Encoded(fs[i])[j + 2] = fs[i][j]
  BY WireAt, Zenon
<1>2. x \in Int /\ y = x + 2 + n /\ x + 2 >= 1 /\ y <= L + 1 /\ L \in Nat
  BY DEF Carries, Positions
<1> HIDE DEF n, x, y, L
<1>3. a \in Int /\ z \in Int /\ a >= 1 /\ z <= L /\ z - a + 1 = n
  BY <1>1, <1>2
<1>4. \A j \in 1 .. n : x + (j + 2) - 1 = a + j - 1
  BY <1>1, <1>2
<1> HIDE DEF a, z
<1>5. a <= z + 1
  BY <1>1, <1>3
<1>6. /\ p \in Seq(Byte) /\ Len(p) = n
      /\ \A j \in 1 .. n : p[j] = bytes[a + j - 1]
  BY <1>3, <1>5, Slice DEF L
<1>7. ASSUME NEW j \in 1 .. n PROVE p[j] = fs[i][j]
  <2>1. j + 2 \in 1 .. n + 2
    BY <1>1
  <2>2. a + j - 1 \in 1 .. L
    BY <1>1, <1>2, <1>3
  <2>3. bytes[x + (j + 2) - 1] = Encoded(fs[i])[j + 2]
    BY <1>4, <2>1, <2>2 DEF Carries, n, L, x
  <2> QED
    BY <1>1, <1>4, <1>6, <2>3, Zenon
<1> HIDE DEF p
<1>8. p = fs[i]
  BY <1>1, <1>6, <1>7, SameElements DEF n
<1> QED
  BY <1>8 DEF p, a, z, x, y

(* The elements of two sequences of frames, one after the other. *)
LEMMA JoinedFrames ==
  ASSUME NEW a \in Seq(Wire), NEW b \in Seq(Wire)
  PROVE  /\ a \o b \in Seq(Wire) /\ Len(a \o b) = Len(a) + Len(b)
         /\ \A i \in 1 .. Len(a) : (a \o b)[i] = a[i]
         /\ \A j \in 1 .. Len(b) : (a \o b)[Len(a) + j] = b[j]
OBVIOUS

LEMMA WholeFrames ==
  ASSUME NEW fs \in Seq(Wire)
  PROVE  SubSeq(fs, 1, Len(fs)) = fs
<1>1. Len(fs) \in Nat
  OBVIOUS
<1>2. /\ SubSeq(fs, 1, Len(fs)) \in Seq(Wire) /\ Len(SubSeq(fs, 1, Len(fs))) = Len(fs)
      /\ \A j \in 1 .. Len(fs) : SubSeq(fs, 1, Len(fs))[j] = fs[j]
  BY <1>1
<1> QED
  BY <1>2, SameElements

(* The elements of a sequence of frames behind another frame. *)
LEMMA OneAhead ==
  ASSUME NEW f \in Wire, NEW t \in Seq(Wire)
  PROVE  /\ <<f>> \o t \in Seq(Wire) /\ Len(<<f>> \o t) = 1 + Len(t)
         /\ (<<f>> \o t)[1] = f
         /\ \A j \in 1 .. Len(t) : (<<f>> \o t)[1 + j] = t[j]
<1> DEFINE h == <<f>>
<1>1. h \in Seq(Wire) /\ Len(h) = 1 /\ h[1] = f
  OBVIOUS
<1> HIDE DEF h
<1>2. /\ h \o t \in Seq(Wire) /\ Len(h \o t) = Len(h) + Len(t)
      /\ \A j \in 1 .. Len(h) : (h \o t)[j] = h[j]
      /\ \A j \in 1 .. Len(t) : (h \o t)[Len(h) + j] = t[j]
  BY <1>1, JoinedFrames
<1> QED
  BY <1>1, <1>2 DEF h

(* The frames from number i on are frame i and those behind it. *)
LEMMA FirstOfRest ==
  ASSUME NEW fs \in Seq(Wire), NEW m \in 0 .. Len(fs), NEW i \in 1 .. m
  PROVE  SubSeq(fs, i, m) = <<fs[i]>> \o SubSeq(fs, i + 1, m)
<1> DEFINE t == SubSeq(fs, i + 1, m)
           s == SubSeq(fs, i, m)
<1>1. fs[i] \in Wire /\ m \in Nat /\ i \in Nat /\ i <= m /\ m <= Len(fs)
  OBVIOUS
<1>2. /\ t \in Seq(Wire) /\ Len(t) = m - i
      /\ \A j \in 1 .. m - i : t[j] = fs[i + j]
  BY <1>1
<1>3. /\ s \in Seq(Wire) /\ Len(s) = m - i + 1
      /\ \A j \in 1 .. m - i + 1 : s[j] = fs[i + j - 1]
  BY <1>1
<1> HIDE DEF s, t
<1> DEFINE u == <<fs[i]>> \o t
<1>4. /\ u \in Seq(Wire) /\ Len(u) = 1 + Len(t) /\ u[1] = fs[i]
      /\ \A j \in 1 .. Len(t) : u[1 + j] = t[j]
  BY <1>1, <1>2, OneAhead
<1> HIDE DEF u
<1>5. ASSUME NEW j \in 1 .. Len(s) PROVE s[j] = u[j]
  <2>1. CASE j = 1
    BY <1>1, <1>3, <1>4, <2>1
  <2>2. CASE j # 1
    <3>1. j - 1 \in 1 .. m - i /\ i + (j - 1) = i + j - 1 /\ 1 + (j - 1) = j
      BY <1>1, <1>3, <2>2
    <3> QED
      BY <1>2, <1>3, <1>4, <3>1, Zenon
  <2> QED
    BY <2>1, <2>2
<1>6. Len(s) = Len(u)
  BY <1>1, <1>2, <1>3, <1>4
<1> QED
  BY <1>3, <1>4, <1>5, <1>6, SameElements DEF s, t, u

(***************************************************************************)
(* Decoding inverts encoding: a stream that begins with a frame decodes to *)
(* the frames of which all bytes are there, and to all the frames when the *)
(* stream ends with one. The lengths in the headers are PutUint16's.       *)
(***************************************************************************)
THEOREM DecodedCarried ==
  ASSUME NEW bytes \in Seq(Byte), NEW fs \in Seq(Wire), NEW at,
         Carries(bytes, fs, at), at[1] = 1
  PROVE  \E m \in 0 .. Len(fs) :
           /\ Decoded(bytes) = SubSeq(fs, 1, m)
           /\ at[m + 1] <= Len(bytes) + 1
           /\ m < Len(fs) => at[m + 2] > Len(bytes) + 1
           /\ at[Len(fs) + 1] = Len(bytes) + 1 => m = Len(fs)
<1> DEFINE n == Len(fs)
           L == Len(bytes)
           T == {k \in 0 .. n : at[n + 1 - k] <= L + 1}
<1>1. n \in Nat /\ L \in Nat
  OBVIOUS
<1>2. /\ \A i \in 1 .. n + 1 : at[i] \in Int
      /\ L < at[n + 1]
  BY DEF Carries, Positions
<1>3. \A i \in 1 .. n : at[i + 1] = at[i] + 2 + Len(fs[i])
  BY Zenon DEF Carries, Positions
<1>4. \A i, k \in 1 .. n + 1 : i < k => at[i] + 2 <= at[k]
  BY Zenon DEF Carries, Positions
<1> HIDE DEF n, L
<1>5. PICK k \in T : \A j \in T : k <= j
  <2>1. n \in T
    BY <1>1
  <2>2. T \subseteq Nat
    BY <1>1
  <2> HIDE DEF T
  <2> QED
    BY <2>1, <2>2, Least, Zenon
<1> DEFINE m == n - k
<1>6. m \in 0 .. n /\ at[m + 1] <= L + 1 /\ (m < n => at[m + 2] > L + 1)
  <2>1. k \in 0 .. n /\ at[n + 1 - k] <= L + 1 /\ n + 1 - k = m + 1
    BY <1>1, <1>5
  <2>2. ASSUME m < n PROVE at[m + 2] > L + 1
    <3>1. k - 1 \in 0 .. n /\ n + 1 - (k - 1) = m + 2 /\ m + 2 \in 1 .. n + 1
      BY <1>1, <2>1, <2>2
    <3>2. k - 1 \notin T
      <4> HIDE DEF T
      <4>1. k \in Int /\ ~(k <= k - 1)
        BY <2>1
      <4> QED
        BY <1>5, <4>1
    <3>3. ~(at[m + 2] <= L + 1)
      BY <3>1, <3>2
    <3> QED
      BY <1>1, <1>2, <3>1, <3>3
  <2> QED
    BY <1>1, <2>1, <2>2
<1> HIDE DEF m
<1>7. ASSUME at[n + 1] = L + 1 PROVE m = n
  <2> SUFFICES ASSUME m < n PROVE FALSE
    BY <1>1, <1>6
  <2>1. m + 2 \in 1 .. n + 1 /\ n + 1 \in 1 .. n + 1
    BY <1>1, <1>6
  <2>2. m + 2 = n + 1 \/ at[m + 2] + 2 <= at[n + 1]
    BY <1>4, <2>1
  <2>3. at[m + 2] \in Int /\ at[m + 2] > L + 1
    BY <1>2, <1>6, <2>1
  <2> QED
    BY <1>1, <1>7, <2>2, <2>3
<1>8. PICK f : Decodes(bytes, f) /\ Decoded(bytes) = f[1]
  BY DecodedUnfolds, Zenon
<1>9. \A i \in 1 .. m + 1 : i \in 1 .. n + 1 /\ at[i] \in 1 .. L + 1
  <2> SUFFICES ASSUME NEW i \in 1 .. m + 1
               PROVE  i \in 1 .. n + 1 /\ at[i] \in 1 .. L + 1
    OBVIOUS
  <2>1. i \in 1 .. n + 1 /\ 1 \in 1 .. n + 1 /\ m + 1 \in 1 .. n + 1
    BY <1>1, <1>6
  <2>2. i = 1 \/ at[1] + 2 <= at[i]
    BY <1>4, <2>1
  <2>3. i = m + 1 \/ at[i] + 2 <= at[m + 1]
    BY <1>4, <1>6, <2>1
  <2>4. at[i] \in Int /\ at[m + 1] \in Int
    BY <1>2, <2>1
  <2> QED
    BY <1>1, <1>6, <2>1, <2>2, <2>3, <2>4
<1>10. \A i \in 1 .. m + 1 : f[at[i]] = FramesFrom(bytes, f, at[i])
  BY <1>8, <1>9, Zenon DEF Decodes, L
<1>11. f[at[m + 1]] = <<>>
  <2> DEFINE p == at[m + 1]
  <2>1. m + 1 \in 1 .. m + 1 /\ p \in 1 .. L + 1
    BY <1>6, <1>9
  <2>2. CASE p + 1 > L
    BY <1>10, <2>1, <2>2, Zenon DEF FramesFrom, Incomplete, L
  <2>3. CASE p + 1 <= L
    <3>1. m < n
      BY <1>1, <1>2, <1>6, <2>1, <2>3
    <3>2. m + 1 \in 1 .. n /\ (m + 1) + 1 = m + 2
      BY <1>1, <1>6, <3>1
    <3>3. LastAt(bytes, p) = at[(m + 1) + 1] - 1
      BY <2>1, <2>3, <3>2, HeaderAt DEF n, L
    <3>4. at[m + 2] \in Int /\ at[m + 2] > L + 1
      BY <1>1, <1>2, <1>6, <3>1
    <3>5. LastAt(bytes, p) > L
      BY <1>1, <3>2, <3>3, <3>4
    <3> QED
      BY <1>10, <2>1, <3>5, Zenon DEF FramesFrom, Incomplete, L
  <2> QED
    BY <1>1, <2>1, <2>2, <2>3
<1>12. ASSUME NEW i \in 1 .. m PROVE f[at[i]] = <<fs[i]>> \o f[at[i + 1]]
  <2> DEFINE l == Len(fs[i])
             p == at[i]
             q == at[i + 1]
  <2>1. i \in 1 .. m + 1 /\ i + 1 \in 1 .. m + 1 /\ i \in 1 .. n
    BY <1>1, <1>6
  <2>2. l \in Nat
    BY <2>1, EncodedType DEF n
  <2>3. q = p + 2 + l /\ p \in 1 .. L + 1 /\ q \in 1 .. L + 1
    BY <1>3, <1>9, <2>1
  <2> HIDE DEF l
  <2>4. p >= 1 /\ p + 1 <= L
    BY <1>1, <2>2, <2>3
  <2>5. LastAt(bytes, p) = q - 1
    BY <2>1, <2>4, HeaderAt DEF n, L
  <2>6. SubSeq(bytes, p + 2, q - 1) = fs[i]
    <3>1. p + 2 >= 1 /\ q <= L + 1
      BY <2>3
    <3> QED
      BY <2>1, <3>1, PayloadAt DEF n, L
  <2>7. f[p] = FramesFrom(bytes, f, p)
    BY <1>10, <2>1
  <2> HIDE DEF p, q
  <2>8. ~Incomplete(bytes, p) /\ LastAt(bytes, p) + 1 = q
    BY <1>1, <2>3, <2>4, <2>5 DEF Incomplete, L
  <2>9. f[p] = <<fs[i]>> \o f[q]
    BY <2>5, <2>6, <2>7, <2>8, Zenon DEF FramesFrom
  <2> QED
    BY <2>9 DEF p, q
<1> DEFINE S == {j \in Nat : j <= m => f[at[m + 1 - j]] = SubSeq(fs, m + 1 - j, m)}
<1>13. 0 \in S
  <2>1. SubSeq(fs, m + 1, m) = <<>> /\ m + 1 - 0 = m + 1
    BY <1>1, <1>6
  <2> QED
    BY <1>11, <2>1, Zenon
<1>14. ASSUME NEW j \in Nat, j \in S PROVE j + 1 \in S
  <2> SUFFICES ASSUME j + 1 <= m
               PROVE  f[at[m + 1 - (j + 1)]] = SubSeq(fs, m + 1 - (j + 1), m)
    OBVIOUS
  <2> DEFINE i == m - j
  <2>1. i \in 1 .. m /\ m + 1 - (j + 1) = i /\ m + 1 - j = i + 1 /\ j <= m
    BY <1>6
  <2>2. f[at[i + 1]] = SubSeq(fs, i + 1, m)
    BY <1>14, <2>1
  <2> HIDE DEF i, S
  <2>3. f[at[i]] = <<fs[i]>> \o f[at[i + 1]]
    BY <1>12, <2>1
  <2>4. SubSeq(fs, i, m) = <<fs[i]>> \o SubSeq(fs, i + 1, m)
    BY <1>6, <2>1, FirstOfRest DEF n
  <2> QED
    BY <2>1, <2>2, <2>3, <2>4, Zenon
<1>15. m \in S
  <2> HIDE DEF S
  <2>1. \A j \in Nat : j \in S
    BY <1>13, <1>14, SetInduction, Zenon
  <2> QED
    BY <1>6, <2>1
<1>16. f[at[1]] = SubSeq(fs, 1, m)
  <2>1. m <= m /\ m + 1 - m = 1
    BY <1>6
  <2> QED
    BY <1>15, <2>1, Zenon
<1> QED
  BY <1>6, <1>7, <1>8, <1>16 DEF n, L

(***************************************************************************)
(* Where a stream has all of m frames and not all of the next one, it      *)
(* decodes to these m frames.                                              *)
(***************************************************************************)
LEMMA DecodedUpTo ==
  ASSUME NEW bytes \in Seq(Byte), NEW fs \in Seq(Wire), NEW at,
         Carries(bytes, fs, at), at[1] = 1, NEW m \in 0 .. Len(fs),
         at[m + 1] <= Len(bytes) + 1, m < Len(fs) => at[m + 2] > Len(bytes) + 1
  PROVE  Decoded(bytes) = SubSeq(fs, 1, m)
<1> DEFINE n == Len(fs)
           L == Len(bytes)
<1>1. PICK k \in 0 .. n : /\ Decoded(bytes) = SubSeq(fs, 1, k)
                          /\ at[k + 1] <= L + 1
                          /\ k < n => at[k + 2] > L + 1
  BY DecodedCarried, Zenon
<1>2. n \in Nat /\ L \in Nat
  OBVIOUS
<1>3. /\ \A i \in 1 .. n + 1 : at[i] \in Int
      /\ \A i, j \in 1 .. n + 1 : i < j => at[i] + 2 <= at[j]
  BY PositionsType, Zenon
<1> HIDE DEF n, L
<1>4. ASSUME NEW i \in 0 .. n, NEW j \in 0 .. n, i < j,
             at[j + 1] <= L + 1, i < n => at[i + 2] > L + 1
      PROVE  FALSE
  <2>1. i + 2 \in 1 .. n + 1 /\ j + 1 \in 1 .. n + 1 /\ i < n
    BY <1>2, <1>4
  <2>2. at[i + 2] \in Int /\ at[j + 1] \in Int
    BY <1>3, <2>1
  <2>3. i + 2 = j + 1 \/ at[i + 2] + 2 <= at[j + 1]
    BY <1>3, <1>4, <2>1
  <2> QED
    BY <1>2, <1>4, <2>1, <2>2, <2>3
<1>5. m \in 0 .. n /\ at[m + 1] <= L + 1 /\ (m < n => at[m + 2] > L + 1)
  BY DEF n, L
<1>6. ~(k < m) /\ ~(m < k)
  BY <1>1, <1>4, <1>5
<1>7. k = m
  BY <1>1, <1>2, <1>5, <1>6
<1> QED
  BY <1>1, <1>7

-----------------------------------------------------------------------------
(* The invariant.  The bytes on their way to tx carry the frames that the   *)
(* host sent: those behind the k delivered ones, without what tx has read.  *)

Upcoming(cn, t, buf, bytes, sent, k, at) ==
  /\ Carries(bytes, sent, at)
  /\ cn \in {"none", "open"} => at[Len(sent) + 1] = Len(bytes) + 1
  /\ t \in {"none", "header"} => at[k + 1] = 1
  /\ t = "payload" => /\ k < Len(sent) /\ at[k + 1] = -1
                      /\ buf = PutUint16(Len(sent[k + 1]))
  /\ t = "write" => k < Len(sent) /\ at[k + 2] = 1 /\ buf = sent[k + 1]

DownOK(cn, t, buf, bytes, sent, got) ==
  /\ sent \in Seq(Wire)
  /\ Len(got) \in 0 .. Len(sent) /\ got = SubSeq(sent, 1, Len(got))
  /\ \/ t \in {"failed", "done"}
     \/ \E at : Upcoming(cn, t, buf, bytes, sent, Len(got), at)

(* The bytes that rx wrote carry the frames that it read, up to the one in *)
(* its buffer; a write that failed leaves a part of that one.              *)
Written(r, buf, bytes, sent, at) ==
  /\ Carries(bytes, sent, at)
  /\ at[1] = 1
  /\ r \in {"none", "read"} => at[Len(sent) + 1] = Len(bytes) + 1
  /\ r = "write" => /\ sent # <<>> /\ buf = sent[Len(sent)]
                    /\ at[Len(sent)] = Len(bytes) + 1

UpOK(r, buf, bytes, sent) ==
  /\ sent \in Seq(Wire)
  /\ \E at : Written(r, buf, bytes, sent, at)

(* tx reads a header. *)
LEMMA DownHeader ==
  ASSUME NEW cn, NEW buf, NEW bytes \in Seq(Byte), NEW sent, NEW got,
         DownOK(cn, "header", buf, bytes, sent, got), 2 <= Len(bytes)
  PROVE  DownOK(cn, "payload", SubSeq(bytes, 1, 2), SubSeq(bytes, 2 + 1, Len(bytes)),
                sent, got)
<1> DEFINE k == Len(got)
           n == Len(sent)
           L == Len(bytes)
           rest == SubSeq(bytes, 2 + 1, L)
<1>1. sent \in Seq(Wire) /\ n \in Nat /\ k \in 0 .. n /\ L \in Nat /\ L >= 2
  BY DEF DownOK
<1>2. PICK at : Upcoming(cn, "header", buf, bytes, sent, k, at)
  BY Zenon DEF DownOK
<1>3. /\ Carries(bytes, sent, at) /\ at[k + 1] = 1
      /\ cn \in {"none", "open"} => at[n + 1] = L + 1
  BY <1>2 DEF Upcoming
<1> DEFINE moved == [i \in 1 .. n + 1 |-> at[i] - 2]
<1>4. Carries(rest, sent, moved) /\ Len(rest) = L - 2
  <2>1. 2 \in 0 .. Len(bytes)
    BY <1>1
  <2> QED
    BY <1>1, <1>3, <2>1, CarriesRest, Zenon
<1> HIDE DEF k
<1>5. L < at[n + 1] /\ at[n + 1] \in Int
  BY <1>1, <1>3, PositionsType
<1>6. at[k + 1] = 1 /\ L < at[n + 1] /\ at[n + 1] \in Int
  BY <1>3, <1>5
<1> HIDE DEF n, L
<1>7. k < n
  BY <1>1, <1>3, <1>6
<1>8. k + 1 \in 1 .. n /\ k + 1 \in 1 .. n + 1 /\ n + 1 \in 1 .. n + 1
  BY <1>1, <1>7
<1>9. moved[k + 1] = -1 /\ moved[n + 1] = at[n + 1] - 2
  BY <1>3, <1>8
<1>10. SubSeq(bytes, 1, 2) = PutUint16(Len(sent[k + 1]))
  <2>1. at[k + 1] >= 1 /\ at[k + 1] + 1 <= L
    BY <1>1, <1>3
  <2>2. /\ bytes[at[k + 1]] = PutUint16(Len(sent[k + 1]))[1]
        /\ bytes[at[k + 1] + 1] = PutUint16(Len(sent[k + 1]))[2]
    BY <1>1, <1>3, <1>8, <2>1, HeaderAt, SMTT(30) DEF n, L
  <2>3. /\ bytes[1] = PutUint16(Len(sent[k + 1]))[1]
        /\ bytes[2] = PutUint16(Len(sent[k + 1]))[2]
    BY <1>3, <2>2
  <2> DEFINE h == PutUint16(Len(sent[k + 1]))
             s == SubSeq(bytes, 1, 2)
  <2>4. h \in Seq(Byte) /\ Len(h) = 2
    <3>1. Len(sent[k + 1]) \in Nat
      BY <1>1, <1>8, WireAt, Zenon DEF n
    <3> QED
      BY <3>1, HeaderType, Zenon
  <2>5. s \in Seq(Byte) /\ Len(s) = 2 /\ s[1] = bytes[1] /\ s[2] = bytes[2]
    BY <1>1, Slice DEF L
  <2> HIDE DEF h, s
  <2>6. \A i \in 1 .. Len(s) : s[i] = h[i]
    BY <2>3, <2>5 DEF h
  <2> QED
    BY <2>4, <2>5, <2>6, SameElements DEF h, s
<1> HIDE DEF rest, moved
<1>11. cn \in {"none", "open"} => moved[n + 1] = Len(rest) + 1
  BY <1>1, <1>3, <1>4, <1>9
<1>12. Upcoming(cn, "payload", SubSeq(bytes, 1, 2), rest, sent, k, moved)
  BY <1>4, <1>7, <1>9, <1>10, <1>11 DEF Upcoming, n
<1> QED
  BY <1>12, Zenon DEF DownOK, rest, k, L

(* tx reads a frame. *)
LEMMA DownPayload ==
  ASSUME NEW cn, NEW buf, NEW bytes \in Seq(Byte), NEW sent, NEW got,
         DownOK(cn, "payload", buf, bytes, sent, got), Uint16(buf) <= Len(bytes)
  PROVE  DownOK(cn, "write", SubSeq(bytes, 1, Uint16(buf)),
                SubSeq(bytes, Uint16(buf) + 1, Len(bytes)), sent, got)
<1> DEFINE k == Len(got)
           n == Len(sent)
           L == Len(bytes)
           l == Uint16(buf)
           rest == SubSeq(bytes, l + 1, L)
<1>1. sent \in Seq(Wire) /\ n \in Nat /\ k \in 0 .. n /\ L \in Nat
  BY DEF DownOK
<1>2. PICK at : Upcoming(cn, "payload", buf, bytes, sent, k, at)
  BY Zenon DEF DownOK
<1>3. /\ Carries(bytes, sent, at) /\ at[k + 1] = -1 /\ k < n
      /\ buf = PutUint16(Len(sent[k + 1]))
      /\ cn \in {"none", "open"} => at[n + 1] = L + 1
  BY <1>2 DEF Upcoming
<1> DEFINE moved == [i \in 1 .. n + 1 |-> at[i] - l]
<1> HIDE DEF k, l
<1>4. /\ k + 1 \in 1 .. n /\ k + 1 \in 1 .. n + 1 /\ k + 2 \in 1 .. n + 1
      /\ n + 1 \in 1 .. n + 1 /\ (k + 1) + 1 = k + 2
  BY <1>1, <1>3
<1>5. l = Len(sent[k + 1]) /\ l \in Nat
  <2>1. Len(sent[k + 1]) \in 0 .. frameLen /\ Len(sent[k + 1]) \in Nat
    BY <1>1, <1>4, EncodedType
  <2> QED
    BY <1>3, <2>1, HeaderRoundTrip DEF l
<1>6. l \in 0 .. Len(bytes)
  BY <1>1, <1>5 DEF l
<1>7. Carries(rest, sent, moved) /\ Len(rest) = L - l
  BY <1>1, <1>3, <1>6, CarriesRest, Zenon
<1>8. at[(k + 1) + 1] = at[k + 1] + 2 + Len(sent[k + 1]) /\ at[n + 1] \in Int
  BY <1>1, <1>3, <1>4, PositionsType, Zenon
<1>9. at[k + 2] = 1 + l
  BY <1>3, <1>4, <1>5, <1>8
<1>10. SubSeq(bytes, 1, l) = sent[k + 1]
  <2>1. at[k + 1] + 2 = 1 /\ at[(k + 1) + 1] - 1 = l /\ at[(k + 1) + 1] = 1 + l
    BY <1>3, <1>4, <1>5, <1>9
  <2>2. at[k + 1] + 2 >= 1 /\ at[(k + 1) + 1] <= L + 1
    BY <1>1, <1>6, <2>1
  <2>3. SubSeq(bytes, at[k + 1] + 2, at[(k + 1) + 1] - 1) = sent[k + 1]
    BY <1>1, <1>3, <1>4, <2>2, PayloadAt, Zenon
  <2> QED
    BY <2>1, <2>3
<1> HIDE DEF n, L
<1>11. moved[k + 2] = 1 /\ moved[n + 1] = at[n + 1] - l
  BY <1>4, <1>5, <1>9
<1> HIDE DEF rest, moved
<1>12. ASSUME cn \in {"none", "open"} PROVE moved[n + 1] = Len(rest) + 1
  <2>1. moved[n + 1] = L + 1 - l
    <3>1. at[n + 1] = L + 1
      BY <1>3, <1>12
    <3>2. moved[n + 1] = at[n + 1] - l
      BY <1>11
    <3> QED
      BY <1>1, <1>5, <3>1, <3>2
  <2>2. Len(rest) = L - l
    BY <1>7
  <2> QED
    BY <1>1, <1>5, <2>1, <2>2
<1>13. Upcoming(cn, "write", SubSeq(bytes, 1, l), rest, sent, k, moved)
  BY <1>3, <1>7, <1>10, <1>11, <1>12 DEF Upcoming, n
<1> QED
  BY <1>13, Zenon DEF DownOK, rest, k, L, l

(* One frame more of those that were sent. *)
LEMMA NextFrame ==
  ASSUME NEW sent \in Seq(Wire), NEW k \in Nat, k < Len(sent)
  PROVE  /\ Append(SubSeq(sent, 1, k), sent[k + 1]) = SubSeq(sent, 1, k + 1)
         /\ Len(SubSeq(sent, 1, k)) = k /\ Len(SubSeq(sent, 1, k + 1)) = k + 1
<1> DEFINE s == SubSeq(sent, 1, k)
           t == SubSeq(sent, 1, k + 1)
           g == Append(s, sent[k + 1])
<1>1. k + 1 \in 1 .. Len(sent) /\ sent[k + 1] \in Wire
  OBVIOUS
<1>2. /\ s \in Seq(Wire) /\ Len(s) = k
      /\ \A i \in 1 .. k : s[i] = sent[i]
  BY <1>1
<1>3. /\ t \in Seq(Wire) /\ Len(t) = k + 1
      /\ \A i \in 1 .. k + 1 : t[i] = sent[i]
  BY <1>1
<1> HIDE DEF s, t
<1>4. /\ g \in Seq(Wire) /\ Len(g) = k + 1 /\ g[k + 1] = sent[k + 1]
      /\ \A i \in 1 .. k : g[i] = s[i]
  BY <1>1, <1>2
<1> HIDE DEF g
<1>5. \A i \in 1 .. Len(g) : g[i] = t[i]
  BY <1>1, <1>2, <1>3, <1>4, SMTT(30)
<1> QED
  BY <1>2, <1>3, <1>4, <1>5, SameElements DEF g, s, t

(* tx writes a frame to the TAP device. *)
LEMMA DownWrite ==
  ASSUME NEW cn, NEW buf, NEW bytes \in Seq(Byte), NEW sent, NEW got,
         DownOK(cn, "write", buf, bytes, sent, got)
  PROVE  DownOK(cn, "header", buf, bytes, sent, Append(got, buf))
<1> DEFINE k == Len(got)
           n == Len(sent)
<1>1. /\ sent \in Seq(Wire) /\ n \in Nat /\ k \in 0 .. n
      /\ got = SubSeq(sent, 1, k)
  BY DEF DownOK
<1>2. PICK at : Upcoming(cn, "write", buf, bytes, sent, k, at)
  BY Zenon DEF DownOK
<1>3. k < n /\ at[k + 2] = 1 /\ buf = sent[k + 1]
  BY <1>2 DEF Upcoming
<1> HIDE DEF k
<1>4. /\ Append(got, buf) = SubSeq(sent, 1, k + 1)
      /\ Len(Append(got, buf)) = k + 1
  BY <1>1, <1>3, NextFrame
<1>5. k + 1 \in 0 .. n /\ (k + 1) + 1 = k + 2
  BY <1>1, <1>3
<1>6. Upcoming(cn, "header", buf, bytes, sent, k + 1, at)
  BY <1>2, <1>3, <1>5 DEF Upcoming
<1> QED
  BY <1>1, <1>4, <1>5, <1>6, Zenon DEF DownOK

(* tx has failed, whatever it read. *)
LEMMA DownFails ==
  ASSUME NEW cn, NEW t, NEW buf, NEW bytes, NEW sent, NEW got,
         DownOK(cn, t, buf, bytes, sent, got)
  PROVE  \A other, b, rest : /\ DownOK(other, "failed", b, rest, sent, got)
                             /\ DownOK(other, "done", b, rest, sent, got)
BY DEF DownOK

(* The connection is made or closed. *)
LEMMA DownConn ==
  ASSUME NEW cn, NEW t, NEW buf, NEW bytes, NEW sent, NEW got,
         DownOK(cn, t, buf, bytes, sent, got),
         NEW other, other \in {"none", "open"} => cn \in {"none", "open"}
  PROVE  DownOK(other, t, buf, bytes, sent, got)
<1>1. \A at : Upcoming(cn, t, buf, bytes, sent, Len(got), at)
                => Upcoming(other, t, buf, bytes, sent, Len(got), at)
  BY DEF Upcoming
<1> QED
  BY <1>1, Zenon DEF DownOK

(* tx starts. *)
LEMMA DownStarts ==
  ASSUME NEW cn, NEW buf, NEW bytes, NEW sent, NEW got,
         DownOK(cn, "none", buf, bytes, sent, got)
  PROVE  DownOK(cn, "header", buf, bytes, sent, got)
<1>1. \A at : Upcoming(cn, "none", buf, bytes, sent, Len(got), at)
                => Upcoming(cn, "header", buf, bytes, sent, Len(got), at)
  BY DEF Upcoming
<1> QED
  BY <1>1 DEF DownOK

(* The connection is cut. *)
LEMMA DownCut ==
  ASSUME NEW cn, NEW t, NEW buf, NEW bytes \in Seq(Byte), NEW sent, NEW got,
         DownOK(cn, t, buf, bytes, sent, got), NEW m \in 0 .. Len(bytes)
  PROVE  DownOK("cut", t, buf, SubSeq(bytes, 1, m), sent, got)
<1>1. sent \in Seq(Wire)
  BY DEF DownOK
<1>2. ASSUME NEW at, Upcoming(cn, t, buf, bytes, sent, Len(got), at)
      PROVE  Upcoming("cut", t, buf, SubSeq(bytes, 1, m), sent, Len(got), at)
  <2>1. Carries(SubSeq(bytes, 1, m), sent, at)
    BY <1>1, <1>2, CarriesPrefix, Zenon DEF Upcoming
  <2> QED
    BY <1>2, <2>1 DEF Upcoming
<1> QED
  BY <1>2, Zenon DEF DownOK

(* The host sends a frame. *)
LEMMA DownSends ==
  ASSUME NEW t, NEW buf, NEW bytes \in Seq(Byte), NEW sent, NEW got,
         DownOK("open", t, buf, bytes, sent, got), NEW f \in Wire
  PROVE  DownOK("open", t, buf, bytes \o Encoded(f), Append(sent, f), got)
<1> DEFINE k == Len(got)
           n == Len(sent)
           L == Len(bytes)
           gs == Append(sent, f)
<1>1. /\ sent \in Seq(Wire) /\ n \in Nat /\ k \in 0 .. n /\ L \in Nat
      /\ got = SubSeq(sent, 1, k)
  BY DEF DownOK
<1>2. /\ gs \in Seq(Wire) /\ Len(gs) = n + 1 /\ gs[n + 1] = f
      /\ \A i \in 1 .. n : gs[i] = sent[i]
  BY <1>1
<1> HIDE DEF k, gs
<1>3. k \in 0 .. Len(gs)
  BY <1>1, <1>2
<1>4. got = SubSeq(gs, 1, k)
  <2> DEFINE s == SubSeq(sent, 1, k)
             r == SubSeq(gs, 1, k)
  <2>1. s \in Seq(Wire) /\ Len(s) = k /\ \A i \in 1 .. k : s[i] = sent[i]
    BY <1>1
  <2>2. r \in Seq(Wire) /\ Len(r) = k /\ \A i \in 1 .. k : r[i] = gs[i]
    BY <1>2, <1>3
  <2> HIDE DEF s, r
  <2>3. ASSUME NEW i \in 1 .. Len(s) PROVE s[i] = r[i]
    <3>1. i \in 1 .. k /\ i \in 1 .. n
      BY <1>1, <2>1
    <3> QED
      BY <1>2, <2>1, <2>2, <3>1
  <2> QED
    BY <1>1, <2>1, <2>2, <2>3, SameElements DEF s, r
<1>5. ASSUME NEW at, Upcoming("open", t, buf, bytes, sent, k, at)
      PROVE  \E more : Upcoming("open", t, buf, bytes \o Encoded(f), gs, k, more)
  <2>1. Carries(bytes, sent, at) /\ at[n + 1] = L + 1
    BY <1>5 DEF Upcoming
  <2>2. PICK more : /\ Carries(bytes, gs, more)
                    /\ \A i \in 1 .. n + 1 : more[i] = at[i]
    <3>1. \E more : /\ Carries(bytes, Append(sent, f), more)
                    /\ \A i \in 1 .. Len(sent) + 1 : more[i] = at[i]
      BY <1>1, <2>1, CarriesNewFrame
    <3> QED
      BY <3>1, Zenon DEF gs
  <2> DEFINE l == Len(f)
             b == bytes \o SubSeq(Encoded(gs[Len(gs)]), 1, l + 2)
  <2>3. /\ f \in Seq(Byte) /\ l \in Nat
        /\ Encoded(f) \in Seq(Byte) /\ Len(Encoded(f)) = l + 2
    BY EncodedType
  <2>4. gs # <<>> /\ gs[Len(gs)] = f /\ more[Len(gs)] = L + 1
    BY <1>1, <1>2, <2>1, <2>2
  <2>5. l + 2 \in 0 .. Len(gs[Len(gs)]) + 2
    BY <2>3, <2>4
  <2>6. Carries(b, gs, more) /\ Len(b) = L + (l + 2)
    BY <1>2, <2>2, <2>4, <2>5, CarriesMore, Zenon
  <2>7. b = bytes \o Encoded(f)
    BY <2>3, <2>4, Whole, Zenon
  <2>8. more[Len(gs) + 1] = more[Len(gs)] + 2 + Len(gs[Len(gs)])
    <3>1. Len(gs) \in 1 .. Len(gs)
      BY <1>1, <1>2
    <3> QED
      BY <1>2, <2>2, <3>1, PositionsType, Zenon
  <2> HIDE DEF b, l, L
  <2>9. more[Len(gs) + 1] = Len(b) + 1
    BY <1>1, <2>3, <2>4, <2>6, <2>8 DEF l
  <2>10. Upcoming("open", t, buf, b, gs, k, more)
    <3>1. t \in {"none", "header"} => more[k + 1] = 1
      <4>1. k + 1 \in 1 .. n + 1
        BY <1>1
      <4> QED
        BY <1>5, <2>2, <4>1 DEF Upcoming
    <3>2. ASSUME t = "payload"
          PROVE  k < Len(gs) /\ more[k + 1] = -1 /\ buf = PutUint16(Len(gs[k + 1]))
      <4>1. k < n /\ at[k + 1] = -1 /\ buf = PutUint16(Len(sent[k + 1]))
        BY <1>5, <3>2 DEF Upcoming
      <4>2. k + 1 \in 1 .. n /\ k + 1 \in 1 .. n + 1 /\ k < n + 1
        BY <1>1, <4>1
      <4> QED
        BY <1>2, <2>2, <4>1, <4>2
    <3>3. ASSUME t = "write"
          PROVE  k < Len(gs) /\ more[k + 2] = 1 /\ buf = gs[k + 1]
      <4>1. k < n /\ at[k + 2] = 1 /\ buf = sent[k + 1]
        BY <1>5, <3>3 DEF Upcoming
      <4>2. k + 1 \in 1 .. n /\ k + 2 \in 1 .. n + 1 /\ k < n + 1
        BY <1>1, <4>1
      <4> QED
        BY <1>2, <2>2, <4>1, <4>2
    <3> QED
      BY <2>6, <2>9, <3>1, <3>2, <3>3 DEF Upcoming
  <2> QED
    BY <2>7, <2>10
<1> QED
  BY <1>2, <1>3, <1>4, <1>5, Zenon DEF DownOK, k, gs

(* rx reads a frame from the TAP device. *)
LEMMA UpReads ==
  ASSUME NEW buf, NEW bytes \in Seq(Byte), NEW sent,
         UpOK("read", buf, bytes, sent), NEW f \in Wire
  PROVE  UpOK("write", f, bytes, Append(sent, f))
<1> DEFINE n == Len(sent)
           gs == Append(sent, f)
<1>1. sent \in Seq(Wire) /\ n \in Nat
  BY DEF UpOK
<1>2. PICK at : Written("read", buf, bytes, sent, at)
  BY Zenon DEF UpOK
<1>3. Carries(bytes, sent, at) /\ at[1] = 1 /\ at[n + 1] = Len(bytes) + 1
  BY <1>2 DEF Written
<1>4. gs \in Seq(Wire) /\ Len(gs) = n + 1 /\ gs[n + 1] = f /\ gs # <<>>
  BY <1>1
<1>5. PICK more : /\ Carries(bytes, gs, more)
                  /\ \A i \in 1 .. n + 1 : more[i] = at[i]
  BY <1>1, <1>3, CarriesNewFrame
<1> HIDE DEF gs, n
<1>6. more[1] = 1 /\ more[n + 1] = Len(bytes) + 1
  BY <1>1, <1>3, <1>5
<1>7. Written("write", f, bytes, gs, more)
  BY <1>4, <1>5, <1>6 DEF Written
<1> QED
  BY <1>4, <1>7, Zenon DEF UpOK, gs

(* rx writes a frame to the connection, or the first bytes of one. *)
LEMMA UpWrites ==
  ASSUME NEW buf, NEW bytes \in Seq(Byte), NEW sent,
         UpOK("write", buf, bytes, sent)
  PROVE  /\ UpOK("read", buf, bytes \o Encoded(buf), sent)
         /\ \A k \in 0 .. Len(Encoded(buf)) - 1 :
              UpOK("failed", buf, bytes \o SubSeq(Encoded(buf), 1, k), sent)
<1> DEFINE n == Len(sent)
           L == Len(bytes)
           l == Len(buf)
<1>1. sent \in Seq(Wire) /\ n \in Nat /\ L \in Nat
  BY DEF UpOK
<1>2. PICK at : Written("write", buf, bytes, sent, at)
  BY Zenon DEF UpOK
<1>3. /\ Carries(bytes, sent, at) /\ at[1] = 1 /\ sent # <<>>
      /\ buf = sent[n] /\ at[n] = L + 1
  BY <1>2 DEF Written
<1>4. n \in 1 .. n /\ buf \in Wire
  BY <1>1, <1>3
<1>5. Encoded(buf) \in Seq(Byte) /\ l \in Nat /\ Len(Encoded(buf)) = l + 2
  BY <1>4, EncodedType
<1>6. ASSUME NEW k \in 0 .. l + 2
      PROVE  /\ Carries(bytes \o SubSeq(Encoded(buf), 1, k), sent, at)
             /\ Len(bytes \o SubSeq(Encoded(buf), 1, k)) = L + k
  BY <1>1, <1>3, CarriesMore, Zenon
<1>7. UpOK("read", buf, bytes \o Encoded(buf), sent)
  <2> DEFINE b == bytes \o Encoded(buf)
  <2>1. l + 2 \in 0 .. l + 2 /\ SubSeq(Encoded(buf), 1, l + 2) = Encoded(buf)
    BY <1>5, Whole
  <2>2. Carries(b, sent, at) /\ Len(b) = L + (l + 2)
    BY <1>6, <2>1, Zenon
  <2>3. at[n + 1] = at[n] + 2 + Len(sent[n])
    BY <1>1, <1>3, <1>4, PositionsType, Zenon
  <2>4. at[n + 1] = L + 1 + 2 + l
    BY <1>3, <2>3, Zenon
  <2> HIDE DEF b, l, L
  <2>5. at[n + 1] = Len(b) + 1
    BY <1>1, <1>5, <2>2, <2>4
  <2>6. Written("read", buf, b, sent, at)
    BY <1>3, <2>2, <2>5 DEF Written
  <2> QED
    BY <1>1, <2>6, Zenon DEF UpOK, b
<1>8. ASSUME NEW k \in 0 .. Len(Encoded(buf)) - 1
      PROVE  UpOK("failed", buf, bytes \o SubSeq(Encoded(buf), 1, k), sent)
  <2>1. k \in 0 .. l + 2
    BY <1>5
  <2>2. Written("failed", buf, bytes \o SubSeq(Encoded(buf), 1, k), sent, at)
    BY <1>3, <1>6, <2>1 DEF Written
  <2> QED
    BY <1>1, <2>2, Zenon DEF UpOK
<1> QED
  BY <1>7, <1>8

(* What the host decodes while rx writes a frame: all frames but that one, *)
(* until the last byte of it is there.                                     *)
LEMMA WriteDecoded ==
  ASSUME NEW buf, NEW bytes \in Seq(Byte), NEW sent,
         UpOK("write", buf, bytes, sent)
  PROVE  /\ sent \in Seq(Wire) /\ Len(sent) - 1 \in Nat
         /\ Decoded(bytes) = SubSeq(sent, 1, Len(sent) - 1)
         /\ Decoded(bytes \o Encoded(buf)) = sent
         /\ \A k \in 0 .. Len(Encoded(buf)) - 1 :
              Decoded(bytes \o SubSeq(Encoded(buf), 1, k)) = SubSeq(sent, 1, Len(sent) - 1)
<1> DEFINE n == Len(sent)
           L == Len(bytes)
           l == Len(buf)
           m == n - 1
<1>1. sent \in Seq(Wire) /\ n \in Nat /\ L \in Nat
  BY DEF UpOK
<1>2. PICK at : Written("write", buf, bytes, sent, at)
  BY Zenon DEF UpOK
<1>3. /\ Carries(bytes, sent, at) /\ at[1] = 1 /\ sent # <<>>
      /\ buf = sent[n] /\ at[n] = L + 1
  BY <1>2 DEF Written
<1>4. n \in 1 .. n /\ buf \in Wire
  BY <1>1, <1>3
<1>5. Encoded(buf) \in Seq(Byte) /\ l \in Nat /\ Len(Encoded(buf)) = l + 2
  BY <1>4, EncodedType
<1>6. at[n + 1] = L + 1 + 2 + l
  <2>1. at[n + 1] = at[n] + 2 + Len(sent[n])
    BY <1>1, <1>3, <1>4, PositionsType, Zenon
  <2> QED
    BY <1>3, <2>1, Zenon
<1>7. m \in Nat /\ m \in 0 .. n /\ m + 1 = n /\ m + 2 = n + 1
  BY <1>1, <1>4
<1>8. ASSUME NEW k \in 0 .. l + 2
      PROVE  /\ Carries(bytes \o SubSeq(Encoded(buf), 1, k), sent, at)
             /\ bytes \o SubSeq(Encoded(buf), 1, k) \in Seq(Byte)
             /\ Len(bytes \o SubSeq(Encoded(buf), 1, k)) = L + k
  BY <1>1, <1>3, CarriesMore, Zenon
<1> HIDE DEF n, L, l, m
<1>9. ASSUME NEW b \in Seq(Byte), NEW k \in 0 .. l + 1,
             Carries(b, sent, at), Len(b) = L + k
      PROVE  Decoded(b) = SubSeq(sent, 1, m)
  <2>1. at[m + 1] <= Len(b) + 1 /\ at[m + 2] > Len(b) + 1
    BY <1>1, <1>3, <1>5, <1>6, <1>7, <1>9
  <2> QED
    BY <1>1, <1>3, <1>7, <1>9, <2>1, DecodedUpTo, Zenon DEF n
<1>10. Decoded(bytes) = SubSeq(sent, 1, m)
  <2>1. 0 \in 0 .. l + 1 /\ Len(bytes) = L + 0
    BY <1>1, <1>5 DEF L
  <2> QED
    BY <1>3, <1>9, <2>1, Zenon
<1>11. ASSUME NEW k \in 0 .. Len(Encoded(buf)) - 1
       PROVE  Decoded(bytes \o SubSeq(Encoded(buf), 1, k)) = SubSeq(sent, 1, m)
  <2>1. k \in 0 .. l + 1 /\ k \in 0 .. l + 2
    BY <1>5
  <2> QED
    BY <1>8, <1>9, <2>1, Zenon
<1>12. Decoded(bytes \o Encoded(buf)) = sent
  <2> DEFINE b == bytes \o Encoded(buf)
  <2>1. l + 2 \in 0 .. l + 2 /\ SubSeq(Encoded(buf), 1, l + 2) = Encoded(buf)
    BY <1>5, Whole
  <2>2. Carries(b, sent, at) /\ b \in Seq(Byte) /\ Len(b) = L + (l + 2)
    BY <1>8, <2>1, Zenon
  <2> HIDE DEF b
  <2>3. at[n + 1] = Len(b) + 1
    BY <1>1, <1>5, <1>6, <2>2
  <2>4. Decoded(b) = SubSeq(sent, 1, n)
    BY <1>1, <1>3, <2>2, <2>3, DecodedCarried, Zenon DEF n
  <2> QED
    BY <1>1, <2>4, WholeFrames DEF b, n
<1> QED
  BY <1>1, <1>7, <1>10, <1>11, <1>12 DEF n, m

(* rx has failed, or starts. *)
LEMMA UpMoves ==
  ASSUME NEW r, NEW buf, NEW bytes, NEW sent, UpOK(r, buf, bytes, sent)
  PROVE  /\ UpOK("failed", buf, bytes, sent) /\ UpOK("done", buf, bytes, sent)
         /\ r = "none" => UpOK("read", buf, bytes, sent)
<1>1. ASSUME NEW at, Written(r, buf, bytes, sent, at)
      PROVE  /\ Written("failed", buf, bytes, sent, at) /\ Written("done", buf, bytes, sent, at)
             /\ r = "none" => Written("read", buf, bytes, sent, at)
  BY <1>1 DEF Written
<1> QED
  BY <1>1, Zenon DEF UpOK

(* The frames have headers. *)
LEMMA FrameWire ==
  ASSUME NEW f \in Frame \cup {<<>>}
  PROVE  f \in Wire /\ Encoded(f) = <<Len(f) % Base, Len(f) \div Base>> \o f
<1>1. f \in Seq(Byte) /\ Len(f) \in 0 .. frameLen
  <2>1. frameLen \in Nat
    BY HeaderLimit
  <2>2. CASE f = <<>>
    BY <2>1, <2>2
  <2>3. CASE f \in Frame
    BY <2>1, <2>3, FrameAssumption
  <2> QED
    BY <2>2, <2>3
<1>2. f \in Wire
  BY <1>1, HeaderLimit DEF Wire
<1>3. PutUint16(Len(f)) = <<Len(f) % Base, Len(f) \div Base>>
  BY <1>1, HeaderHigh DEF PutUint16
<1> QED
  BY <1>2, <1>3 DEF Encoded
=============================================================================
