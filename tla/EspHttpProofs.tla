--------------------------- MODULE EspHttpProofs ---------------------------
(***************************************************************************)
(* For any requests, pieces and addresses: a handler gets its own body     *)
(* whole and last, and only requests that were cut off leave bytes behind. *)
(*                                                                         *)
(* The invariant describes bodyBuf_ at an address piece by piece: first    *)
(* what aborted requests left, then the pieces of the present request that *)
(* have arrived, in order.  Both properties are what it says of a complete *)
(* request and of an address without one.                                  *)
(***************************************************************************)
EXTENDS EspHttp, SequenceTheorems, TLAPS

Piece == Client \X (Nat \ {0})

(* After what aborted requests left, buf ends with n pieces of c. *)
EndsWith(buf, c, n, gone) ==
  /\ Len(buf) >= n
  /\ \A i \in 1 .. n : buf[Len(buf) - n + i] = <<c, i>>
  /\ \A i \in 1 .. Len(buf) - n : buf[i][1] \in gone

Buffered(a) ==
  /\ bodyBuf[a] \in Seq(Piece) /\ arrived[a] \in Nat
  /\ at[a] = Nobody => EndsWith(bodyBuf[a], Nobody, 0, aborted)
  /\ at[a] # Nobody => /\ arrived[a] <= Pieces[at[a]]
                       /\ EndsWith(bodyBuf[a], at[a], arrived[a], aborted)

EspShape ==
  /\ at \in [Addr -> Client \cup {Nobody}]
  /\ arrived \in [Addr -> Nat]
  /\ bodyBuf \in [Addr -> Seq(Piece)]

Served ==
  \A h \in called : /\ h[1] \in Client /\ h[2] \in Seq(Piece)
                    /\ EndsWith(h[2], h[1], Pieces[h[1]], aborted)

EspInv == EspShape /\ (\A a \in Addr : Buffered(a)) /\ Served

(* One more piece of the same request at the end. *)
LEMMA EndsWithOneMore ==
  ASSUME NEW buf \in Seq(Piece), NEW c \in Client, NEW n \in Nat, NEW gone,
         EndsWith(buf, c, n, gone)
  PROVE  /\ Append(buf, <<c, n + 1>>) \in Seq(Piece)
         /\ EndsWith(Append(buf, <<c, n + 1>>), c, n + 1, gone)
<1> DEFINE new == Append(buf, <<c, n + 1>>)
<1>1. <<c, n + 1>> \in Piece
  BY DEF Piece
<1>2. /\ new \in Seq(Piece) /\ Len(new) = Len(buf) + 1 /\ Len(buf) \in Nat
      /\ new[Len(buf) + 1] = <<c, n + 1>>
      /\ \A i \in 1 .. Len(buf) : new[i] = buf[i]
  BY <1>1, AppendProperties, LenProperties
<1> HIDE DEF new
<1>3. Len(new) >= n + 1
  BY <1>2 DEF EndsWith
<1>4. ASSUME NEW i \in 1 .. n + 1 PROVE new[Len(new) - (n + 1) + i] = <<c, i>>
  <2>1. CASE i = n + 1
    BY <1>2, <2>1
  <2>2. CASE i # n + 1
    <3>1. i \in 1 .. n /\ Len(new) - (n + 1) + i = Len(buf) - n + i
      BY <1>2, <2>2
    <3>2. Len(buf) - n + i \in 1 .. Len(buf)
      BY <1>2, <3>1 DEF EndsWith
    <3> QED
      BY <1>2, <3>1, <3>2 DEF EndsWith
  <2> QED
    BY <2>1, <2>2
<1>5. ASSUME NEW i \in 1 .. Len(new) - (n + 1) PROVE new[i][1] \in gone
  <2>1. i \in 1 .. Len(buf) - n /\ i \in 1 .. Len(buf)
    BY <1>2
  <2> QED
    BY <1>2, <2>1 DEF EndsWith
<1>6. EndsWith(new, c, n + 1, gone)
  BY <1>3, <1>4, <1>5 DEF EndsWith
<1> QED
  BY <1>2, <1>6 DEF new

(* A request that is cut off leaves its pieces with those of others. *)
LEMMA CutOffIsGone ==
  ASSUME NEW buf \in Seq(Piece), NEW c, NEW n \in Nat, NEW gone, NEW more,
         EndsWith(buf, c, n, gone), gone \subseteq more, n = 0 \/ c \in more
  PROVE  \A i \in DOMAIN buf : buf[i][1] \in more
<1> SUFFICES ASSUME NEW i \in DOMAIN buf PROVE buf[i][1] \in more
  OBVIOUS
<1>1. Len(buf) \in Nat /\ i \in 1 .. Len(buf)
  BY LenProperties
<1>2. CASE i \in 1 .. Len(buf) - n
  BY <1>2 DEF EndsWith
<1>3. CASE i \notin 1 .. Len(buf) - n
  <2>1. i - (Len(buf) - n) \in 1 .. n
    BY <1>1, <1>3 DEF EndsWith
  <2>2. buf[Len(buf) - n + (i - (Len(buf) - n))] = <<c, i - (Len(buf) - n)>>
    BY <2>1 DEF EndsWith
  <2>3. Len(buf) - n + (i - (Len(buf) - n)) = i
    BY <1>1
  <2> QED
    BY <2>1, <2>2, <2>3
<1> QED
  BY <1>2, <1>3

(* EndsWith in the words of OwnBodyLast. *)
LEMMA EndIsTheBody ==
  ASSUME NEW buf \in Seq(Piece), NEW c \in Client, NEW n \in Nat, NEW gone,
         EndsWith(buf, c, n, gone)
  PROVE  /\ Len([i \in 1 .. n |-> <<c, i>>]) = n
         /\ SubSeq(buf, Len(buf) - n + 1, Len(buf)) = [i \in 1 .. n |-> <<c, i>>]
<1> DEFINE own == [i \in 1 .. n |-> <<c, i>>]
           first == Len(buf) - n + 1
           last == SubSeq(buf, first, Len(buf))
<1>1. own \in Seq(Piece) /\ Len(own) = n
  <2>1. \A i \in 1 .. n : <<c, i>> \in Piece
    BY DEF Piece
  <2>2. own \in [1 .. n -> Piece]
    BY <2>1
  <2> HIDE DEF own
  <2>3. own \in Seq(Piece)
    BY <2>2, SeqDef
  <2> QED
    BY <2>2, <2>3, LenProperties
<1>2. Len(buf) \in Nat /\ first \in 1 .. Len(buf) + 1
  BY LenProperties DEF EndsWith
<1>3. \A i \in first .. Len(buf) : buf[i] \in Piece
  BY <1>2, ElementOfSeq
<1> HIDE DEF first
<1>4. /\ last \in Seq(Piece)
      /\ Len(last) = IF first <= Len(buf) THEN Len(buf) - first + 1 ELSE 0
      /\ \A i \in 1 .. Len(buf) - first + 1 : last[i] = buf[first + i - 1]
  BY <1>2, <1>3, SubSeqProperties
<1> HIDE DEF last
<1>5. Len(last) = n
  BY <1>2, <1>4 DEF first
<1>6. ASSUME NEW i \in 1 .. n PROVE last[i] = own[i]
  <2>1. i \in 1 .. Len(buf) - first + 1 /\ first + i - 1 = Len(buf) - n + i
    BY <1>2 DEF first
  <2> QED
    BY <1>4, <2>1 DEF EndsWith
<1> HIDE DEF own
<1>7. last = own
  BY <1>1, <1>4, <1>5, <1>6, SeqEqual
<1> QED
  BY <1>1, <1>7 DEF own, last, first

(* More aborted requests, or another name for none, change nothing. *)
LEMMA EndsWithGrows ==
  ASSUME NEW buf, NEW c, NEW n, NEW gone, NEW more,
         EndsWith(buf, c, n, gone), gone \subseteq more
  PROVE  EndsWith(buf, c, n, more)
BY DEF EndsWith

(* An address none of whose fields change keeps what it has. *)
LEMMA OthersKeep ==
  ASSUME NEW a \in Addr, Buffered(a), aborted \subseteq aborted',
         at'[a] = at[a], arrived'[a] = arrived[a], bodyBuf'[a] = bodyBuf[a]
  PROVE  Buffered(a)'
<1>1. CASE at[a] = Nobody
  BY <1>1, EndsWithGrows DEF Buffered
<1>2. CASE at[a] # Nobody
  BY <1>2, EndsWithGrows DEF Buffered
<1> QED
  BY <1>1, <1>2

LEMMA ServedKeeps ==
  ASSUME Served, called' = called, aborted \subseteq aborted' PROVE Served'
BY EndsWithGrows DEF Served

(* EspInv is inductive, one step per callback. *)
LEMMA AcceptKeeps ==
  ASSUME EspInv, NEW c \in Client, NEW a \in Addr, Accept(c, a) PROVE EspInv'
<1> USE EspAssumption DEF EspInv
<1>1. EspShape'
  BY DEF Accept, EspShape
<1>2. Buffered(a)'
  <2>1. /\ at'[a] = c /\ arrived'[a] = 0 /\ bodyBuf'[a] = bodyBuf[a] /\ aborted' = aborted
        /\ at[a] = Nobody /\ c # Nobody
    BY DEF Accept, EspShape
  <2>2. EndsWith(bodyBuf[a], Nobody, 0, aborted)
    BY <2>1 DEF Buffered
  <2>3. EndsWith(bodyBuf[a], c, 0, aborted)
    BY <2>2 DEF EndsWith
  <2>4. Pieces[c] \in Nat /\ bodyBuf[a] \in Seq(Piece)
    BY DEF EspShape
  <2> QED
    BY <2>1, <2>3, <2>4 DEF Buffered
<1>3. ASSUME NEW b \in Addr, b # a PROVE Buffered(b)'
  BY <1>3, OthersKeep DEF Accept, EspShape
<1>4. Served'
  BY ServedKeeps DEF Accept
<1> QED
  BY <1>1, <1>2, <1>3, <1>4

(* A piece of a body goes to the end of the buffer at its address.         *)
LEMMA BodyBytesKeep ==
  ASSUME EspInv, NEW a \in Addr, BodyBytes(a) PROVE EspInv'
<1> USE EspAssumption DEF EspInv
<1> DEFINE c == at[a]
           n == arrived[a]
<1>1. /\ c \in Client /\ n \in Nat /\ n < Pieces[c] /\ Pieces[c] \in Nat
      /\ c # Nobody /\ bodyBuf[a] \in Seq(Piece)
  BY DEF BodyBytes, EspShape
<1>2. /\ at' = at /\ aborted' = aborted /\ called' = called
      /\ arrived' = [arrived EXCEPT ![a] = n + 1]
      /\ bodyBuf' = [bodyBuf EXCEPT ![a] = Append(bodyBuf[a], <<c, n + 1>>)]
  BY DEF BodyBytes, EspShape
<1>3. EndsWith(bodyBuf[a], c, n, aborted)
  BY <1>1 DEF Buffered
<1>4. /\ Append(bodyBuf[a], <<c, n + 1>>) \in Seq(Piece)
      /\ EndsWith(Append(bodyBuf[a], <<c, n + 1>>), c, n + 1, aborted)
  BY <1>1, <1>3, EndsWithOneMore
<1>5. EspShape'
  BY <1>1, <1>2, <1>4 DEF EspShape
<1>6. Buffered(a)'
  <2>1. at'[a] = c /\ arrived'[a] = n + 1 /\ bodyBuf'[a] = Append(bodyBuf[a], <<c, n + 1>>)
    BY <1>2 DEF EspShape
  <2>2. n + 1 \in Nat /\ n + 1 <= Pieces[c]
    BY <1>1
  <2> QED
    BY <1>1, <1>2, <1>4, <2>1, <2>2 DEF Buffered
<1>7. ASSUME NEW b \in Addr, b # a PROVE Buffered(b)'
  BY <1>2, <1>7, OthersKeep DEF EspShape
<1>8. Served'
  BY <1>2, ServedKeeps
<1> QED
  BY <1>5, <1>6, <1>7, <1>8

(* All handlers but GET's take the whole buffer, and empty it.             *)
LEMMA RequestCompleteKeeps ==
  ASSUME EspInv, NEW a \in Addr, RequestComplete(a) PROVE EspInv'
<1> USE EspAssumption DEF EspInv
<1> DEFINE c == at[a]
<1>1. /\ c \in Client /\ c # Nobody /\ arrived[a] = Pieces[c] /\ Pieces[c] \in Nat
      /\ bodyBuf[a] \in Seq(Piece)
  BY DEF RequestComplete, EspShape
<1>2. /\ at' = [at EXCEPT ![a] = Nobody] /\ aborted' = aborted /\ arrived' = arrived
      /\ bodyBuf' = Taken(a)
  BY DEF RequestComplete
<1>3. EndsWith(bodyBuf[a], c, Pieces[c], aborted)
  BY <1>1 DEF Buffered
<1>4. <<>> \in Seq(Piece) /\ Len(<<>>) = 0
  OBVIOUS
<1>5. \A d : EndsWith(<<>>, d, 0, aborted)
  BY <1>4 DEF EndsWith
<1>6. EspShape'
  BY <1>1, <1>2, <1>4 DEF EspShape, Taken
<1>7. Buffered(a)'
  <2>1. at'[a] = Nobody /\ arrived'[a] \in Nat
    BY <1>1, <1>2 DEF EspShape
  <2>2. CASE Method[c] = "GET"
    <3>1. bodyBuf'[a] = bodyBuf[a] /\ Pieces[c] = 0
      BY <1>1, <1>2, <2>2 DEF Taken
    <3>2. EndsWith(bodyBuf[a], Nobody, 0, aborted)
      BY <1>3, <3>1 DEF EndsWith
    <3> QED
      BY <1>1, <1>2, <2>1, <3>1, <3>2 DEF Buffered
  <2>3. CASE Method[c] # "GET"
    <3>1. bodyBuf'[a] = <<>>
      BY <1>2, <2>3 DEF Taken, EspShape
    <3> QED
      BY <1>2, <1>4, <1>5, <2>1, <3>1 DEF Buffered
  <2> QED
    BY <2>2, <2>3
<1>8. ASSUME NEW b \in Addr, b # a PROVE Buffered(b)'
  BY <1>2, <1>8, OthersKeep DEF EspShape, Taken
<1>9. Served'
  <2>1. CASE called' = called
    BY <1>2, <2>1, ServedKeeps
  <2>2. CASE called' = called \cup {<<c, IF Method[c] = "GET" THEN <<>> ELSE bodyBuf[a]>>}
    <3> DEFINE h == <<c, IF Method[c] = "GET" THEN <<>> ELSE bodyBuf[a]>>
    <3>1. h[1] \in Client /\ h[2] \in Seq(Piece) /\ EndsWith(h[2], h[1], Pieces[h[1]], aborted)
      <4>1. CASE Method[c] = "GET"
        <5>1. h[1] = c /\ h[2] = <<>> /\ Pieces[c] = 0
          BY <1>1, <4>1
        <5> HIDE DEF h
        <5> QED
          BY <1>1, <1>4, <1>5, <5>1
      <4>2. CASE Method[c] # "GET"
        <5>1. h[1] = c /\ h[2] = bodyBuf[a]
          BY <4>2
        <5> HIDE DEF h
        <5> QED
          BY <1>1, <1>3, <5>1
      <4> QED
        BY <4>1, <4>2
    <3> HIDE DEF h
    <3>2. called' = called \cup {h}
      BY <2>2 DEF h
    <3> QED
      BY <1>2, <3>1, <3>2 DEF Served
  <2> QED
    BY <2>1, <2>2 DEF RequestComplete
<1> QED
  BY <1>6, <1>7, <1>8, <1>9

(* A request that is cut off leaves its pieces to whoever comes next.      *)
LEMMA DisconnectKeeps ==
  ASSUME EspInv, NEW a \in Addr, Disconnect(a) PROVE EspInv'
<1> USE EspAssumption DEF EspInv
<1>1. /\ at[a] # Nobody /\ at[a] \in Client /\ bodyBuf[a] \in Seq(Piece) /\ arrived[a] \in Nat
      /\ aborted' = aborted \cup {at[a]} /\ at' = [at EXCEPT ![a] = Nobody]
      /\ arrived' = arrived /\ bodyBuf' = bodyBuf /\ called' = called
  BY DEF Disconnect, EspShape
<1>2. EspShape'
  BY <1>1 DEF EspShape
<1>3. Buffered(a)'
  <2>1. EndsWith(bodyBuf[a], at[a], arrived[a], aborted)
    BY <1>1 DEF Buffered
  <2>2. \A i \in DOMAIN bodyBuf[a] : bodyBuf[a][i][1] \in aborted \cup {at[a]}
    <3> DEFINE more == aborted \cup {at[a]}
    <3>1. bodyBuf[a] \in Seq(Piece) /\ arrived[a] \in Nat
      BY <1>1
    <3>2. aborted \subseteq more /\ at[a] \in more
      OBVIOUS
    <3> HIDE DEF more
    <3>3. \A i \in DOMAIN bodyBuf[a] : bodyBuf[a][i][1] \in more
      BY <2>1, <3>1, <3>2, CutOffIsGone
    <3> QED
      BY <3>3 DEF more
  <2>3. Len(bodyBuf[a]) \in Nat /\ DOMAIN bodyBuf[a] = 1 .. Len(bodyBuf[a])
    BY <1>1, LenProperties
  <2>4. EndsWith(bodyBuf[a], Nobody, 0, aborted')
    BY <1>1, <2>2, <2>3 DEF EndsWith
  <2>5. at'[a] = Nobody
    BY <1>1 DEF EspShape
  <2> QED
    BY <1>1, <2>4, <2>5 DEF Buffered
<1>4. ASSUME NEW b \in Addr, b # a PROVE Buffered(b)'
  BY <1>1, <1>4, OthersKeep DEF EspShape
<1>5. Served'
  BY <1>1, ServedKeeps
<1> QED
  BY <1>2, <1>3, <1>4, <1>5

LEMMA EspHolds == EspSpec => []EspInv
<1>1. EspInit => EspInv
  BY DEF EspInit, EspInv, EspShape, Buffered, Served, EndsWith
<1>2. ASSUME EspInv, [EspNext]_espVars PROVE EspInv'
  <2>1. CASE \E c \in Client, a \in Addr : Accept(c, a)
    BY <1>2, <2>1, AcceptKeeps
  <2>2. CASE \E a \in Addr : BodyBytes(a)
    BY <1>2, <2>2, BodyBytesKeep
  <2>3. CASE \E a \in Addr : RequestComplete(a)
    BY <1>2, <2>3, RequestCompleteKeeps
  <2>4. CASE \E a \in Addr : Disconnect(a)
    BY <1>2, <2>4, DisconnectKeeps
  <2>5. CASE UNCHANGED espVars
    <3>1. UNCHANGED <<at, arrived, bodyBuf, called, aborted>>
      BY <2>5 DEF espVars
    <3>2. \A a \in Addr : Buffered(a)'
      BY <1>2, <3>1, OthersKeep DEF EspInv
    <3>3. Served'
      BY <1>2, <3>1, ServedKeeps DEF EspInv
    <3> QED
      BY <1>2, <3>1, <3>2, <3>3 DEF EspInv, EspShape
  <2> QED
    BY <1>2, <2>1, <2>2, <2>3, <2>4, <2>5 DEF EspNext
<1> QED
  BY <1>1, <1>2, PTL DEF EspSpec

(* Completed requests leave nothing in bodyBuf_, however many there are    *)
(* and however their pieces are interleaved.                               *)
THEOREM BufferHoldsOnlyAborted == EspSpec => []OnlyAbortedLeaveBytes
<1>1. EspInv => OnlyAbortedLeaveBytes
  <2> SUFFICES ASSUME EspInv, NEW a \in Addr
               PROVE  \A i \in DOMAIN bodyBuf[a] : bodyBuf[a][i][1] \in aborted \cup {at[a]}
    BY DEF OnlyAbortedLeaveBytes
  <2>1. bodyBuf[a] \in Seq(Piece) /\ arrived[a] \in Nat /\ Buffered(a)
    BY DEF EspInv, Buffered
  <2>2. CASE at[a] = Nobody
    BY <2>1, <2>2, CutOffIsGone DEF Buffered
  <2>3. CASE at[a] # Nobody
    BY <2>1, <2>3, CutOffIsGone DEF Buffered
  <2> QED
    BY <2>2, <2>3
<1> QED
  BY <1>1, EspHolds, PTL

(* The body a handler is called with ends with the whole body of its own   *)
(* request; the pieces of requests under way at other addresses never mix. *)
THEOREM HandlerGetsOwnBody == EspSpec => []OwnBodyLast
<1>1. EspInv => OwnBodyLast
  <2> SUFFICES ASSUME EspInv, NEW h \in called
               PROVE  /\ Len(h[2]) - Len(Body(h[1])) >= 0
                      /\ SubSeq(h[2], Len(h[2]) - Len(Body(h[1])) + 1, Len(h[2])) = Body(h[1])
                      /\ \A i \in 1 .. Len(h[2]) - Len(Body(h[1])) : h[2][i][1] \in aborted
    BY DEF OwnBodyLast
  <2>1. h[1] \in Client /\ h[2] \in Seq(Piece) /\ EndsWith(h[2], h[1], Pieces[h[1]], aborted)
    BY DEF EspInv, Served
  <2>2. Pieces[h[1]] \in Nat /\ Len(h[2]) \in Nat
    BY <2>1, EspAssumption, LenProperties
  <2>3. /\ Len(Body(h[1])) = Pieces[h[1]]
        /\ SubSeq(h[2], Len(h[2]) - Pieces[h[1]] + 1, Len(h[2])) = Body(h[1])
    BY <2>1, <2>2, EndIsTheBody DEF Body
  <2> QED
    BY <2>1, <2>2, <2>3 DEF EndsWith
<1> QED
  BY <1>1, EspHolds, PTL

(* Type correctness. *)
THEOREM EspTypeCorrect == EspSpec => []EspTypeOK
<1> DEFINE Replies == reply \in [Client -> Seq({200, 404, 503})]
<1>1. EspInit => Replies
  <2>1. <<>> \in Seq({200, 404, 503})
    OBVIOUS
  <2> QED
    BY <2>1 DEF EspInit
<1>2. EspInv /\ Replies /\ [EspNext]_espVars => Replies'
  <2> SUFFICES ASSUME EspInv, Replies, [EspNext]_espVars PROVE Replies'
    OBVIOUS
  <2>1. ASSUME NEW a \in Addr, RequestComplete(a) PROVE Replies'
    <3>1. at[a] \in Client
      BY <2>1 DEF RequestComplete, EspInv, EspShape
    <3>2. PICK status \in {200, 404, 503} : reply' = [reply EXCEPT ![at[a]] = Append(@, status)]
      BY <2>1 DEF RequestComplete
    <3>3. Append(reply[at[a]], status) \in Seq({200, 404, 503})
      BY <3>1, AppendProperties
    <3> QED
      BY <3>1, <3>2, <3>3
  <2>2. CASE UNCHANGED reply
    BY <2>2
  <2>3. UNCHANGED reply \/ \E a \in Addr : RequestComplete(a)
    BY DEF EspNext, Accept, BodyBytes, Disconnect, espVars
  <2> QED
    BY <2>1, <2>2, <2>3
<1>3. EspInv /\ Replies => EspTypeOK
  BY DEF EspInv, EspShape, Served, EspTypeOK, Piece
<1> HIDE DEF Replies
<1> QED
  BY <1>1, <1>2, <1>3, EspHolds, PTL DEF EspSpec
=============================================================================
