------------------------------ MODULE EspHttp ------------------------------
(***************************************************************************)
(* pal::HttpServer on the ESP32: how the body of a POST or PATCH request   *)
(* reaches its handler.  The web server calls back once per piece of body  *)
(* and once when the request is complete; in between, HttpServer keeps the *)
(* pieces in bodyBuf_, keyed by the address of the request object.         *)
(*                                                                         *)
(* One task makes all the calls, so each is one action, but the pieces of  *)
(* several requests arrive in any order.  A connection that ends early     *)
(* deletes its request with no call; a later request may get its address.  *)
(***************************************************************************)
EXTENDS Naturals, Sequences, FiniteSets

CONSTANTS
  Addr,        \* addresses of request objects
  Client,      \* requests clients send
  Method,      \* [Client -> {"POST", "PATCH", "GET"}]; DELETE is like GET
  Known,       \* clients whose url a handler answers; the others send to a
               \* url below a registered one, e.g. POST /api/modules/x
  Pieces,      \* [Client -> Nat]: in how many pieces the body arrives
  Nobody

ASSUME EspAssumption ==
  /\ Method \in [Client -> {"POST", "PATCH", "GET"}] /\ Known \subseteq Client
  /\ Pieces \in [Client -> Nat] /\ Nobody \notin Client
  /\ \A c \in Client : Method[c] = "GET" => Pieces[c] = 0

VARIABLES
  at,        \* the request object at an address, as the client that sent it
  arrived,   \* pieces of its body that have arrived
  bodyBuf,   \* bodyBuf_: <<client, number>> of the pieces; absent is <<>>
  called,    \* history: <<client, body>> for every call of a handler
  reply,     \* history: what each client has been sent
  aborted    \* history: clients whose connection ended early

espVars == <<at, arrived, bodyBuf, called, reply, aborted>>

Body(c) == [i \in 1 .. Pieces[c] |-> <<c, i>>]
Sent == {c \in Client : reply[c] # <<>>} \cup aborted \cup {at[a] : a \in Addr}

EspInit ==
  /\ at = [a \in Addr |-> Nobody]
  /\ arrived = [a \in Addr |-> 0]
  /\ bodyBuf = [a \in Addr |-> <<>>]
  /\ called = {} /\ aborted = {}
  /\ reply = [c \in Client |-> <<>>]

(* The server allocates a request object for c. *)
Accept(c, a) ==
  /\ c \notin Sent /\ at[a] = Nobody
  /\ at' = [at EXCEPT ![a] = c]
  /\ arrived' = [arrived EXCEPT ![a] = 0]
  /\ UNCHANGED <<bodyBuf, called, reply, aborted>>

(* Mutant: pieces are counted from 0. *)
BodyBytesFromZero(a) ==
  /\ at[a] # Nobody /\ arrived[a] < Pieces[at[a]]
  /\ arrived' = [arrived EXCEPT ![a] = @ + 1]
  /\ bodyBuf' = [bodyBuf EXCEPT ![a] = Append(@, <<at[a], arrived[a]>>)]
  /\ UNCHANGED <<at, called, reply, aborted>>

(* The body-bytes callback. *)
BodyBytes(a) ==
  /\ at[a] # Nobody /\ arrived[a] < Pieces[at[a]]
  /\ arrived' = [arrived EXCEPT ![a] = @ + 1]
  /\ bodyBuf' = [bodyBuf EXCEPT ![a] = Append(@, <<at[a], arrived'[a]>>)]
  /\ UNCHANGED <<at, called, reply, aborted>>

(* Mutants: the buffer keeps what the handler was given, always or when no *)
(* handler fits.                                                           *)
TakenAndKept(a) == bodyBuf
TakenWhenKnown(a) == IF at[a] \in Known THEN [bodyBuf EXCEPT ![a] = <<>>] ELSE bodyBuf

(* The request-complete callback of POST and PATCH takes the entry out. *)
Taken(a) ==
  IF Method[at[a]] = "GET" THEN bodyBuf ELSE [bodyBuf EXCEPT ![a] = <<>>]

(* The request-complete callback: the handler of the url gets the body,    *)
(* other urls are 404; a handler that runs out of memory answers 503.      *)
RequestComplete(a) ==
  LET c == at[a]
  IN /\ c # Nobody /\ arrived[a] = Pieces[c]
     /\ bodyBuf' = Taken(a)
     /\ \/ /\ c \in Known
           /\ called' = called \cup {<<c, IF Method[c] = "GET" THEN <<>> ELSE bodyBuf[a]>>}
           /\ \E status \in {200, 503} : reply' = [reply EXCEPT ![c] = Append(@, status)]
        \/ /\ c \notin Known
           /\ reply' = [reply EXCEPT ![c] = Append(@, 404)]
           /\ UNCHANGED called
     /\ at' = [at EXCEPT ![a] = Nobody]
     /\ UNCHANGED <<arrived, aborted>>

(* The connection ends before the request is complete. *)
Disconnect(a) ==
  /\ at[a] # Nobody
  /\ aborted' = aborted \cup {at[a]}
  /\ at' = [at EXCEPT ![a] = Nobody]
  /\ UNCHANGED <<arrived, bodyBuf, called, reply>>

EspNext ==
  \/ \E c \in Client, a \in Addr : Accept(c, a)
  \/ \E a \in Addr : BodyBytes(a) \/ RequestComplete(a) \/ Disconnect(a)

EspSpec == EspInit /\ [][EspNext]_espVars

-----------------------------------------------------------------------------
(* Type invariant. *)
EspTypeOK ==
  /\ at \in [Addr -> Client \cup {Nobody}]
  /\ arrived \in [Addr -> Nat]
  /\ bodyBuf \in [Addr -> Seq(Client \X (Nat \ {0}))]
  /\ reply \in [Client -> Seq({200, 404, 503})]
  /\ \A h \in called : h[1] \in Client

(* A handler gets the whole body of its own request, at the end of what it *)
(* gets, whatever other requests send meanwhile; and what stands before it *)
(* can only come from requests that were cut off at the same address.      *)
OwnBodyLast ==
  \A h \in called :
    LET own == Body(h[1])
        extra == Len(h[2]) - Len(own)
    IN /\ extra >= 0
       /\ SubSeq(h[2], extra + 1, Len(h[2])) = own
       /\ \A i \in 1 .. extra : h[2][i][1] \in aborted

(* What bodyBuf_ holds for an address without a request comes from cut-off *)
(* requests: completed ones, the 404s included, leave nothing behind.      *)
OnlyAbortedLeaveBytes ==
  \A a \in Addr : \A i \in DOMAIN bodyBuf[a] : bodyBuf[a][i][1] \in aborted \cup {at[a]}
=============================================================================
