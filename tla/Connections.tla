----------------------------- MODULE Connections -----------------------------
(***************************************************************************)
(* Transports and protocols between a LoopProxy and its parent, and the    *)
(* transport phase of check_and_shutdown() calls that run beside each      *)
(* other or one after the other, with what follows it up to the return.    *)
(*                                                                         *)
(* The parent holds the real transport and, as its protocol, a protocol    *)
(* proxy.  A check_and_shutdown() awaits the future wait_closed of the     *)
(* protocol proxy it finds at the transport; the future is shared by all   *)
(* that await it, and a cancelled call cancels it.                         *)
(***************************************************************************)
EXTENDS Naturals

CONSTANTS Transport,
          Below,       \* Below[w]: the transport that start_tls() wraps into w
          Abortable,   \* transports that are WriteTransports
          Faulty,      \* transports whose protocols may raise in connection_lost()
          Calls,       \* bound: how many times check_and_shutdown() is called
          Generations, \* bound: how many protocols each transport gets
          None         \* nothing is awaited

Tls  == DOMAIN Below
Call == 1..Calls  \* the calls, in the order they begin

Number   == UNION {1..Generations[t] : t \in Transport}
Protocol == Transport \X Number

ASSUME ConnectionAssumption ==
  /\ Tls \subseteq Transport
  /\ \A w \in Tls : Below[w] \in Transport \ Tls
  /\ Abortable \subseteq Transport /\ Faulty \subseteq Transport
  /\ Calls \in Nat
  /\ Generations \in [Transport -> Nat \ {0}]
  /\ None \notin Protocol

VARIABLES
  (* in the parent *)
  st,         \* the state of a transport, see State
  gen,        \* the number of its current protocol proxy, 0 before connection_made()
  ssl,        \* transports whose protocol is the parent's SSLProtocol
  (* in the proxy *)
  asking,     \* transports whose caller has not resumed from the await
  registered, \* LoopProxy._transports
  waitClosed, \* the future wait_closed of each protocol proxy
  refused,    \* history: protocol proxies whose connection_lost() failed in set_result()
  (* the calls *)
  pc, todo,   \* where a call is and what is left of its snapshot
  awaited,    \* the protocol proxy whose wait_closed it awaits or awaited last
  asked,      \* the calls that the program cancelled
  seen        \* history: the snapshot of each call

parentVars == <<st, gen, ssl>>
proxyVars  == <<asking, registered, waitClosed, refused>>
callVars   == <<pc, todo, awaited, asked, seen>>
vars == <<parentVars, proxyVars, callVars>>

State == {"absent", "connecting", "open",
          "draining",  \* close() was called and there is data left to send
          "ending",    \* the call of connection_lost() is queued
          "lost"}

Waiters(p) == waitClosed[p[1]][p[2]]

(* Nobody else runs between two awaits of a coroutine. *)
OthersRun == \A c \in Call : pc[c] # "turn"

(* The type of the state.  `assert transp is not None': what is registered *)
(* has had its connection_made().                                          *)
TypeOK ==
  /\ st \in [Transport -> State]
  /\ gen \in [Transport -> Number \cup {0}]
  /\ ssl \subseteq Transport \ Tls
  /\ registered \subseteq {t \in Transport : gen[t] > 0}
  /\ asking \subseteq Transport \ registered
  /\ waitClosed \in [Transport -> [Number -> {"pending", "result", "cancelled"}]]
  /\ refused \subseteq Protocol
  /\ pc \in [Call -> {"idle", "turn", "waiting", "stranded", "returned", "cancelled"}]
  /\ todo \in [Call -> SUBSET Transport] /\ seen \in [Call -> SUBSET Transport]
  /\ awaited \in [Call -> Protocol \cup {None}]
  /\ asked \subseteq {c \in Call : awaited[c] # None}

Init ==
  /\ st = [t \in Transport |-> "absent"]
  /\ gen = [t \in Transport |-> 0]
  /\ ssl = {} /\ asking = {} /\ registered = {} /\ refused = {} /\ asked = {}
  /\ waitClosed = [t \in Transport |-> [n \in Number |-> "pending"]]
  /\ pc = [c \in Call |-> "idle"]
  /\ todo = [c \in Call |-> {}] /\ seen = [c \in Call |-> {}]
  /\ awaited = [c \in Call |-> None]

-----------------------------------------------------------------------------
(* The program *)

(* create_connection() and its kind, up to the await of the parent's answer. *)
Connect(t) ==
  /\ OthersRun
  /\ t \notin Tls /\ st[t] = "absent"
  /\ st' = [st EXCEPT ![t] = "connecting"]
  /\ asking' = asking \cup {t}
  /\ UNCHANGED <<gen, ssl, registered, waitClosed, refused, callVars>>

(* The parent puts its SSLProtocol in the place of the protocol proxy. *)
StartTls(w) ==
  /\ OthersRun
  /\ w \in Tls /\ st[w] = "absent"
  /\ st[Below[w]] = "open" /\ Below[w] \notin ssl
  /\ st' = [st EXCEPT ![w] = "connecting"]
  /\ ssl' = ssl \cup {Below[w]}
  /\ asking' = asking \cup {w}
  /\ UNCHANGED <<gen, registered, waitClosed, refused, callVars>>

(* Faulty variant: before connection_made(). *)
CallerResumes_Early(t) ==
  /\ OthersRun
  /\ t \in asking
  /\ asking' = asking \ {t}
  /\ registered' = registered \cup {t}
  /\ UNCHANGED <<parentVars, waitClosed, refused, callVars>>

(* The caller hears of the connection and registers it, however late. *)
CallerResumes(t) ==
  /\ OthersRun
  /\ t \in asking /\ gen[t] > 0
  /\ asking' = asking \ {t}
  /\ registered' = registered \cup {t}
  /\ UNCHANGED <<parentVars, waitClosed, refused, callVars>>

(* The caller is cancelled: the parent gives up what is not connected yet,  *)
(* closing the transport below; what is connected stays open, unregistered. *)
CallerCancelled(t) ==
  /\ OthersRun
  /\ t \in asking
  /\ asking' = asking \ {t}
  /\ st' = [x \in Transport |->
              IF st[t] # "connecting" THEN st[x]
              ELSE IF x = t THEN "lost"
              ELSE IF t \in Tls /\ x = Below[t] /\ st[x] = "open" THEN "draining" ELSE st[x]]
  /\ UNCHANGED <<gen, ssl, registered, waitClosed, refused, callVars>>

(* A new protocol proxy with a wait_closed of its own. *)
SetProtocol(t) ==
  /\ OthersRun
  /\ st[t] \in {"open", "draining", "ending"} /\ t \notin ssl
  /\ gen[t] < Generations[t]
  /\ gen' = [gen EXCEPT ![t] = @ + 1]
  /\ UNCHANGED <<st, ssl, proxyVars, callVars>>

(* close() sends what is left before connection_lost() is queued; a TLS *)
(* transport is gone when the one below it is.                          *)
Closed(t) ==
  {[st EXCEPT ![t] = s] : s \in IF t \in Tls THEN {"draining"} ELSE {"draining", "ending"}}

Close(t) ==
  /\ OthersRun
  /\ st[t] = "open"
  /\ st' \in Closed(t)
  /\ UNCHANGED <<gen, ssl, proxyVars, callVars>>

-----------------------------------------------------------------------------
(* The parent and the peer *)

(* connection_made() of the protocol proxy makes the transport proxy. *)
ConnectionMade(t) ==
  /\ OthersRun
  /\ st[t] = "connecting"
  /\ t \in Tls => st[Below[t]] = "open"
  /\ st' = [st EXCEPT ![t] = "open"]
  /\ gen' = [gen EXCEPT ![t] = 1]
  /\ UNCHANGED <<ssl, proxyVars, callVars>>

(* The peer closes, the last data is sent, or the program aborts. *)
Drop(t) ==
  /\ OthersRun
  /\ t \notin Tls /\ st[t] \in {"open", "draining"}
  /\ st' = [st EXCEPT ![t] = "ending"]
  /\ UNCHANGED <<gen, ssl, proxyVars, callVars>>

(* SSLProtocol.connection_lost(): the handshake fails, or the loss is queued *)
(* for the protocol proxy above.                                             *)
BelowLost(t) ==
  /\ OthersRun
  /\ st[t] = "ending" /\ t \in ssl
  /\ st' = [x \in Transport |->
              IF x = t THEN "lost"
              ELSE IF x \in Tls /\ Below[x] = t /\ st[x] \in {"connecting", "open", "draining"}
                   THEN IF st[x] = "connecting" THEN "lost" ELSE "ending"
              ELSE st[x]]
  /\ asking' = asking \ {x \in Tls : Below[x] = t /\ st[x] = "connecting"}
  /\ UNCHANGED <<gen, ssl, registered, waitClosed, refused, callVars>>

(* Faulty variant: wait_closed is cancelled where it should be set. *)
ConnectionLost_Cancels(t) ==
  /\ OthersRun
  /\ st[t] = "ending" /\ t \notin ssl
  /\ st' = [st EXCEPT ![t] = "lost"]
  /\ waitClosed' = [waitClosed EXCEPT ![t][gen[t]] = "cancelled"]
  /\ UNCHANGED <<gen, ssl, asking, registered, refused, callVars>>

(* connection_lost() of the protocol proxy: the user's protocol is called   *)
(* first; set_result() raises if a cancelled call has cancelled the future. *)
ConnectionLost(t) ==
  /\ OthersRun
  /\ st[t] = "ending" /\ t \notin ssl
  /\ st' = [st EXCEPT ![t] = "lost"]
  /\ \/ t \in Faulty /\ UNCHANGED <<waitClosed, refused>>
     \/ IF Waiters(<<t, gen[t]>>) = "pending"
        THEN waitClosed' = [waitClosed EXCEPT ![t][gen[t]] = "result"] /\ UNCHANGED refused
        ELSE refused' = refused \cup {<<t, gen[t]>>} /\ UNCHANGED waitClosed
  /\ UNCHANGED <<gen, ssl, asking, registered, callVars>>

-----------------------------------------------------------------------------
(* check_and_shutdown(), the transport phase *)

Begin(c) ==
  /\ OthersRun
  /\ pc[c] = "idle" /\ \A b \in 1..(c - 1) : pc[b] # "idle"
  /\ pc' = [pc EXCEPT ![c] = "turn"]
  /\ todo' = [todo EXCEPT ![c] = registered]
  /\ seen' = [seen EXCEPT ![c] = registered]
  /\ UNCHANGED <<parentVars, proxyVars, awaited, asked>>

(* abort() does not wait for the peer. *)
Aborted(t) ==
  IF t \in Tls
  THEN [st EXCEPT ![t] = "draining",
                  ![Below[t]] = IF @ \in {"open", "draining"} THEN "ending" ELSE @]
  ELSE [st EXCEPT ![t] = "ending"]

(* What get_protocol() of the parent's transport may answer: a lost one has  *)
(* no protocol, an SSLProtocol is no protocol proxy (0), and a TLS transport *)
(* forgets its protocol when the one below is lost.                          *)
GetProtocol(t) ==
  IF st[t] = "lost" \/ t \in ssl THEN {0}
  ELSE IF t \in Tls /\ st[t] = "ending" THEN {0, gen[t]} ELSE {gen[t]}

Shut(t) == IF t \in Abortable THEN {Aborted(t)} ELSE Closed(t)

Await(c, p) ==
  /\ awaited' = [awaited EXCEPT ![c] = p]
  /\ pc' = [pc EXCEPT ![c] = IF Waiters(p) = "cancelled" THEN "cancelled" ELSE "waiting"]

(* Faulty variant: transports that are closing already are not awaited. *)
Treat_OpenOnly(c, t) ==
  /\ pc[c] = "turn" /\ t \in todo[c]
  /\ todo' = [todo EXCEPT ![c] = @ \ {t}]
  /\ IF st[t] = "open" /\ t \notin ssl
     THEN st' \in Shut(t) /\ Await(c, <<t, gen[t]>>)
     ELSE UNCHANGED <<st, pc, awaited>>
  /\ UNCHANGED <<gen, ssl, proxyVars, asked, seen>>

(* Faulty variant: only what can be aborted is closed. *)
Treat_AbortOnly(c, t) ==
  /\ pc[c] = "turn" /\ t \in todo[c]
  /\ todo' = [todo EXCEPT ![c] = @ \ {t}]
  /\ st' = IF st[t] = "open" /\ t \in Abortable THEN Aborted(t) ELSE st
  /\ \E n \in GetProtocol(t) :
       IF n = 0 THEN UNCHANGED <<pc, awaited>> ELSE Await(c, <<t, n>>)
  /\ UNCHANGED <<gen, ssl, proxyVars, asked, seen>>

Treat(c, t) ==
  /\ pc[c] = "turn" /\ t \in todo[c]
  /\ todo' = [todo EXCEPT ![c] = @ \ {t}]
  /\ st' \in IF st[t] = "open" THEN Shut(t) ELSE {st}
  /\ \E n \in GetProtocol(t) :
       IF n = 0 THEN UNCHANGED <<pc, awaited>> ELSE Await(c, <<t, n>>)
  /\ UNCHANGED <<gen, ssl, proxyVars, asked, seen>>

Wake(c) ==
  /\ OthersRun
  /\ pc[c] = "waiting" /\ Waiters(awaited[c]) # "pending"
  /\ pc' = [pc EXCEPT ![c] = IF c \in asked \/ Waiters(awaited[c]) = "cancelled"
                             THEN "cancelled" ELSE "turn"]
  /\ UNCHANGED <<parentVars, proxyVars, todo, awaited, asked, seen>>

(* Task.cancel() of the task of a call cancels the future it awaits. *)
CancelCall(c) ==
  /\ OthersRun
  /\ pc[c] = "waiting" /\ c \notin asked
  /\ asked' = asked \cup {c}
  /\ LET p == awaited[c] IN
     waitClosed' = [waitClosed EXCEPT ![p[1]][p[2]] = IF @ = "pending" THEN "cancelled" ELSE @]
  /\ UNCHANGED <<parentVars, asking, registered, refused, pc, todo, awaited, seen>>

(* The queued wake-up of a call is a handle of the proxy. *)
Queued(c) == pc[c] = "waiting" /\ Waiters(awaited[c]) # "pending"

(* The set is cleared, with what was registered meanwhile, and after the    *)
(* phases of readers and writers all handles are cancelled, in one go: a    *)
(* call that is about to wake up never does.  (Nor does the caller of a     *)
(* Connect() whose callback was queued: CallerResumes() need not happen.)   *)
End(c) ==
  /\ pc[c] = "turn" /\ todo[c] = {}
  /\ pc' = [d \in Call |-> IF d = c THEN "returned" ELSE IF Queued(d) THEN "stranded" ELSE pc[d]]
  /\ registered' = {}
  /\ UNCHANGED <<parentVars, asking, waitClosed, refused, todo, awaited, asked, seen>>

-----------------------------------------------------------------------------

Program(t) ==
  \/ Connect(t)
  \/ StartTls(t)
  \/ CallerResumes(t)
  \/ CallerCancelled(t)
  \/ SetProtocol(t)
  \/ Close(t)
  \/ ConnectionMade(t)
  \/ Drop(t)

Lost(t) == BelowLost(t) \/ ConnectionLost(t)

Proceed(c) == Wake(c) \/ End(c) \/ \E t \in Transport : Treat(c, t)

Next ==
  \/ \E t \in Transport : Program(t) \/ Lost(t)
  \/ \E c \in Call : Begin(c) \/ CancelCall(c) \/ Proceed(c)

Spec == Init /\ [][Next]_vars

(* The parent makes the calls of connection_lost() it has queued and resumes *)
(* the coroutines.  Either happens a bounded number of times, so that it is  *)
(* not put off for ever by the other.  Nothing makes a peer read or close.   *)
Progress == (\E t \in Transport : Lost(t)) \/ (\E c \in Call : Proceed(c))

FairSpec == Spec /\ WF_vars(Progress)

-----------------------------------------------------------------------------
(* Properties *)

(* What was in the snapshot of a call is lost when the call returns, however *)
(* it was closed and whatever protocols it got while the call waited.  There *)
(* are two exceptions: the transport below a TLS connection has no protocol  *)
(* proxy to wait for, and a TLS transport may drop its own early; for these  *)
(* the loss is only on its way, or waits for the peer.                       *)
LostAtReturn ==
  \A c \in Call : pc[c] = "returned" =>
    \A t \in seen[c] :
      \/ st[t] = "lost"
      \/ t \in Tls /\ st[t] = "ending"
      \/ t \in ssl /\ st[t] \in {"draining", "ending"}

(* A call fails with CancelledError only if it was cancelled itself, or if *)
(* another was while it awaited the very same protocol; and only then is   *)
(* the parent's call of connection_lost() refused.                         *)
CancelledOnlyIfAsked ==
  LET Asked(p) == \E d \in asked : awaited[d] = p IN
  /\ \A c \in Call : pc[c] = "cancelled" => Asked(awaited[c])
  /\ \A p \in refused : Asked(p)

(* The loss of the transport a call awaits does not reach the future it awaits. *)
Unlosable(c) ==
  LET t == awaited[c][1] IN
  /\ pc[c] = "waiting"
  /\ \/ gen[t] # awaited[c][2]            \* set_protocol() came in between
     \/ st[t] = "lost" /\ t \in Faulty    \* the user's connection_lost() raised
        /\ Waiters(awaited[c]) = "pending"
     \/ st[t] = "draining"                \* the peer does not read
        /\ (t \in Tls => st[Below[t]] \in {"open", "draining"})

(* Or the other call that shared the future was resumed first and swept the *)
(* wake-up of this one.                                                     *)
Stuck(c) == Unlosable(c) \/ pc[c] = "stranded"

(* A call that waits gets to its end, or one of these four cases arises. *)
WaitEnds ==
  \A c \in Call : pc[c] = "waiting" ~> pc[c] \in {"returned", "cancelled"} \/ Stuck(c)
=============================================================================
