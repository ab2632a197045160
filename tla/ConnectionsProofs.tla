--------------------------- MODULE ConnectionsProofs ---------------------------
(* Proofs about Connections, for any transports, protocols and number of calls. *)
EXTENDS Connections, TLAPS

-----------------------------------------------------------------------------
(* The inductive invariant, in parts *)

Live == {"open", "draining", "ending"}

(* A transport has a protocol proxy from connection_made() on. *)
MadeHasProtocol ==
  \A t \in Transport :
    /\ st[t] \in Live => gen[t] > 0
    /\ gen[t] > 0 => st[t] \notin {"absent", "connecting"}

(* A call awaits a protocol proxy, and treats what was registered. *)
CallsInOrder ==
  \A c \in Call :
    /\ pc[c] \in {"waiting", "stranded", "cancelled"} => awaited[c] \in Protocol
    /\ c \in asked => pc[c] \in {"waiting", "stranded", "cancelled"}
    /\ todo[c] \subseteq seen[c]
    /\ pc[c] = "returned" => todo[c] = {}
    /\ \A t \in seen[c] : gen[t] > 0

(* wait_closed is set when the transport is lost, cancelled by a call. *)
AskedFor(p)   == \E d \in asked : awaited[d] = p
ResultIsLost  == \A t \in Transport : \A n \in Number :
                   waitClosed[t][n] = "result" => st[t] = "lost"
CancelIsAsked == \A t \in Transport : \A n \in Number :
                   waitClosed[t][n] = "cancelled" => AskedFor(<<t, n>>)

(* A call fails, and connection_lost() does, because a call was cancelled. *)
CallsAreAsked == \A c \in Call : pc[c] = "cancelled" => AskedFor(awaited[c])
RefusedAsked  == \A p \in refused : AskedFor(p)

(* What LostAtReturn allows: lost, or one of the two exceptions. *)
Settled(t) ==
  \/ st[t] = "lost"
  \/ t \in Tls /\ st[t] = "ending"
  \/ t \in ssl /\ st[t] \in {"draining", "ending"}

(* What a call has treated is settled, but for the transport it waits for. *)
TreatedIsSettled ==
  \A c \in Call : pc[c] # "cancelled" =>
    \A t \in seen[c] \ todo[c] :
      Settled(t) \/ (pc[c] \in {"waiting", "stranded"} /\ awaited[c][1] = t)

Inv == /\ TypeOK
       /\ MadeHasProtocol
       /\ CallsInOrder
       /\ ResultIsLost
       /\ CancelIsAsked
       /\ CallsAreAsked
       /\ RefusedAsked
       /\ TreatedIsSettled

-----------------------------------------------------------------------------
(* One step per action *)

(* The numbers of protocols are positive, and each transport may have a first. *)
LEMMA Numbers ==
  /\ Number \subseteq Nat \ {0}
  /\ \A t \in Transport : 1 \in Number /\ 1..Generations[t] \subseteq Number
<1>1. \A t \in Transport : 1..Generations[t] \subseteq Number
  BY DEF Number
<1>2. \A t \in Transport : Generations[t] \in Nat \ {0}
  BY ConnectionAssumption
<1> QED BY <1>1, <1>2 DEF Number

(* A transport that is shut is on its way to be lost, and so may be the one *)
(* below it; no other changes.                                              *)
LEMMA ShutCloses ==
  ASSUME TypeOK, NEW t \in Transport, st[t] = "open", NEW f \in Shut(t)
  PROVE  /\ f \in [Transport -> State]
         /\ f[t] \in {"draining", "ending"}
         /\ \A x \in Transport : f[x] = st[x] \/ (st[x] \in {"open", "draining"} /\ f[x] \in {"draining", "ending"})
<1> USE ConnectionAssumption DEF TypeOK, State
<1>1. CASE f \in Closed(t)
  BY <1>1 DEF Closed
<1>2. CASE f = Aborted(t)
  BY <1>2 DEF Aborted
<1> QED BY <1>1, <1>2 DEF Shut

(* One turn of the loop over the snapshot: what it does to the transports, *)
(* and what the call awaits then.                                          *)
Treated(c, t) ==
  /\ st' \in [Transport -> State]
  /\ st[t] = "open" => st'[t] \in {"draining", "ending"}
  /\ \A x \in Transport :
       st'[x] = st[x] \/ (st[x] \in {"open", "draining"} /\ st'[x] \in {"draining", "ending"})
  /\ \/ 0 \in GetProtocol(t) /\ UNCHANGED <<pc, awaited>>
     \/ /\ gen[t] # 0 /\ awaited' = [awaited EXCEPT ![c] = <<t, gen[t]>>]
        /\ \/ Waiters(<<t, gen[t]>>) = "cancelled" /\ pc' = [pc EXCEPT ![c] = "cancelled"]
           \/ Waiters(<<t, gen[t]>>) # "cancelled" /\ pc' = [pc EXCEPT ![c] = "waiting"]

(* Treat(c, t) does that. *)
LEMMA TreatEffect ==
  ASSUME TypeOK
  PROVE  \A c \in Call, t \in Transport : Treat(c, t) => Treated(c, t)
<1> SUFFICES ASSUME NEW c \in Call, NEW t \in Transport, Treat(c, t)
             PROVE  Treated(c, t)
  OBVIOUS
<1>1. (st[t] = "open" => st' \in Shut(t)) /\ (st[t] # "open" => st' = st)
  <2>1. CASE st[t] = "open"
    BY <2>1 DEF Treat
  <2>2. CASE st[t] # "open"
    BY <2>2 DEF Treat
  <2> QED BY <2>1, <2>2
<1>2. PICK n \in GetProtocol(t) : IF n = 0 THEN UNCHANGED <<pc, awaited>> ELSE Await(c, <<t, n>>)
  BY DEF Treat
<1>3. n = 0 \/ n = gen[t]
  BY <1>2 DEF GetProtocol
<1>5. /\ st' \in [Transport -> State]
      /\ st[t] = "open" => st'[t] \in {"draining", "ending"}
      /\ \A x \in Transport :
           st'[x] = st[x] \/ (st[x] \in {"open", "draining"} /\ st'[x] \in {"draining", "ending"})
  <2>1. CASE st[t] = "open"
    BY <1>1, <2>1, ShutCloses
  <2>2. CASE st[t] # "open"
    BY <1>1, <2>2 DEF TypeOK
  <2> QED BY <2>1, <2>2
<1>6. CASE n = 0
  BY <1>2, <1>5, <1>6 DEF Treated
<1>7. CASE n # 0
  <2>1. Await(c, <<t, gen[t]>>) /\ gen[t] # 0
    BY <1>2, <1>3, <1>7
  <2>2. CASE Waiters(<<t, gen[t]>>) = "cancelled"
    BY <1>5, <2>1, <2>2 DEF Treated, Await
  <2>3. CASE Waiters(<<t, gen[t]>>) # "cancelled"
    BY <1>5, <2>1, <2>3 DEF Treated, Await
  <2> QED BY <2>2, <2>3
<1> QED BY <1>6, <1>7

(* Every step keeps the types: a new protocol proxy has a number within the *)
(* bound, and a call awaits one that exists.                                *)
LEMMA TypeStep ==
  TypeOK /\ MadeHasProtocol /\ CallsInOrder /\ [Next]_vars => TypeOK'
<1> SUFFICES ASSUME TypeOK, MadeHasProtocol, CallsInOrder, [Next]_vars
             PROVE  TypeOK'
  OBVIOUS
<1>t. \A c \in Call, t \in Transport : Treat(c, t) => Treated(c, t)
  BY TreatEffect
<1> USE ConnectionAssumption DEF TypeOK, State, Live, MadeHasProtocol, CallsInOrder, Protocol
<1>1. ASSUME NEW t \in Transport, Connect(t) PROVE TypeOK'
  BY <1>1 DEF Connect, parentVars, proxyVars, callVars
<1>2. ASSUME NEW t \in Transport, StartTls(t) PROVE TypeOK'
  <2>1. Below[t] \in Transport \ Tls /\ t \in Transport
    BY <1>2 DEF StartTls
  <2>2. t \notin registered
    BY <1>2 DEF StartTls
  <2> QED BY <1>2, <2>1, <2>2 DEF StartTls, parentVars, proxyVars, callVars
<1>3. ASSUME NEW t \in Transport, CallerResumes(t) PROVE TypeOK'
  BY <1>3 DEF CallerResumes, parentVars, proxyVars, callVars
<1>4. ASSUME NEW t \in Transport, CallerCancelled(t) PROVE TypeOK'
  BY <1>4 DEF CallerCancelled, parentVars, proxyVars, callVars
<1>5. ASSUME NEW t \in Transport, SetProtocol(t) PROVE TypeOK'
  <2>1. gen[t] \in Number \cup {0} /\ gen[t] < Generations[t]
    BY <1>5 DEF SetProtocol
  <2>2. Generations[t] \in Nat
    BY ConnectionAssumption
  <2>3. gen[t] \in Nat /\ gen[t] < Generations[t] /\ Generations[t] \in Nat
    <3>1. Number \cup {0} \subseteq Nat
      BY Numbers
    <3>2. gen[t] \in Nat
      BY ONLY <2>1, <3>1, Zenon
    <3> QED BY ONLY <2>1, <2>2, <3>2
  <2>4. gen[t] + 1 \in 1..Generations[t]
    BY ONLY <2>3
  <2>5. gen[t] + 1 \in Number /\ gen[t] + 1 > 0
    BY ONLY <2>3, <2>4, Numbers, t \in Transport
  <2> QED BY <1>5, <2>5, Numbers DEF SetProtocol, parentVars, proxyVars, callVars
<1>6. ASSUME NEW t \in Transport, Close(t) PROVE TypeOK'
  <2>1. st' \in [Transport -> State]
    BY <1>6 DEF Close, Closed
  <2> QED BY <1>6, <2>1 DEF Close, parentVars, proxyVars, callVars
<1>7. ASSUME NEW t \in Transport, ConnectionMade(t) PROVE TypeOK'
  BY <1>7, Numbers DEF ConnectionMade, parentVars, proxyVars, callVars
<1>8. ASSUME NEW t \in Transport, Drop(t) PROVE TypeOK'
  BY <1>8 DEF Drop, parentVars, proxyVars, callVars
<1>9. ASSUME NEW t \in Transport, BelowLost(t) PROVE TypeOK'
  BY <1>9 DEF BelowLost, parentVars, proxyVars, callVars
<1>10. ASSUME NEW t \in Transport, ConnectionLost(t) PROVE TypeOK'
  <2>1. gen[t] \in Number
    BY <1>10 DEF ConnectionLost
  <2>2. waitClosed' \in [Transport -> [Number -> {"pending", "result", "cancelled"}]]
    <3>1. waitClosed' = waitClosed \/ waitClosed' = [waitClosed EXCEPT ![t][gen[t]] = "result"]
      BY <1>10 DEF ConnectionLost
    <3>2. CASE waitClosed' = waitClosed
      BY <3>2
    <3>3. CASE waitClosed' = [waitClosed EXCEPT ![t][gen[t]] = "result"]
      BY <2>1, <3>3
    <3> QED BY <3>1, <3>2, <3>3
  <2>3. refused' \subseteq Protocol
    BY <1>10, <2>1 DEF ConnectionLost
  <2> QED BY <1>10, <2>2, <2>3 DEF ConnectionLost, parentVars, proxyVars, callVars
<1>11. ASSUME NEW c \in Call, Begin(c) PROVE TypeOK'
  BY <1>11 DEF Begin, parentVars, proxyVars, callVars
<1>12. ASSUME NEW c \in Call, CancelCall(c) PROVE TypeOK'
  <2>1. awaited[c] \in Transport \X Number
    BY <1>12 DEF CancelCall
  <2>2. waitClosed' \in [Transport -> [Number -> {"pending", "result", "cancelled"}]]
    BY <1>12, <2>1 DEF CancelCall
  <2> QED BY <1>12, <2>2 DEF CancelCall, parentVars, proxyVars, callVars
<1>13. ASSUME NEW c \in Call, Wake(c) PROVE TypeOK'
  BY <1>13 DEF Wake, parentVars, proxyVars, callVars
<1>14. ASSUME NEW c \in Call, End(c) PROVE TypeOK'
  BY <1>14 DEF End, Queued, parentVars, proxyVars, callVars
<1>15. ASSUME NEW c \in Call, NEW t \in Transport, Treat(c, t) PROVE TypeOK'
  <2>0. Treated(c, t)
    BY <1>15, <1>t
  <2>1. st' \in [Transport -> State]
    BY <2>0 DEF Treated
  <2>2. gen[t] # 0 => <<t, gen[t]>> \in Protocol
    OBVIOUS
  <2>3. pc' \in [Call -> {"idle", "turn", "waiting", "stranded", "returned", "cancelled"}]
    BY <2>0 DEF Treated
  <2>4. awaited' \in [Call -> Protocol \cup {None}]
    <3>1. awaited' = awaited \/ (gen[t] # 0 /\ awaited' = [awaited EXCEPT ![c] = <<t, gen[t]>>])
      BY <2>0 DEF Treated
    <3> HIDE DEF Protocol
    <3> QED BY <3>1, <2>2
  <2>5. asked' \subseteq {d \in Call : awaited'[d] # None}
    <3>1. c \notin asked /\ asked' = asked
      BY <1>15 DEF Treat
    <3>2. awaited' = awaited \/ (gen[t] # 0 /\ awaited' = [awaited EXCEPT ![c] = <<t, gen[t]>>])
      BY <2>0 DEF Treated
    <3> QED BY <3>1, <3>2
  <2> QED BY <1>15, <2>1, <2>3, <2>4, <2>5 DEF Treat, parentVars, proxyVars, callVars
<1>16. CASE UNCHANGED vars
  BY <1>16 DEF vars, parentVars, proxyVars, callVars
<1> QED
  BY <1>1, <1>2, <1>3, <1>4, <1>5, <1>6, <1>7, <1>8, <1>9, <1>10, <1>11, <1>12, <1>13, <1>14, <1>15, <1>16
  DEF Next, Program, Lost, Proceed

(* connection_made() comes once and first: a live transport has a proxy. *)
LEMMA MadeStep ==
  TypeOK /\ MadeHasProtocol /\ [Next]_vars => MadeHasProtocol'
<1> SUFFICES ASSUME TypeOK, MadeHasProtocol, [Next]_vars
             PROVE  MadeHasProtocol'
  OBVIOUS
<1>t. \A c \in Call, t \in Transport : Treat(c, t) => Treated(c, t)
  BY TreatEffect
<1> USE ConnectionAssumption DEF TypeOK, State, Live, MadeHasProtocol
<1>1. ASSUME NEW t \in Transport, Connect(t) PROVE MadeHasProtocol'
  BY <1>1 DEF Connect, parentVars, proxyVars, callVars
<1>2. ASSUME NEW t \in Transport, StartTls(t) PROVE MadeHasProtocol'
  BY <1>2 DEF StartTls, parentVars, proxyVars, callVars
<1>3. ASSUME NEW t \in Transport, CallerResumes(t) PROVE MadeHasProtocol'
  BY <1>3 DEF CallerResumes, parentVars, proxyVars, callVars
<1>4. ASSUME NEW t \in Transport, CallerCancelled(t) PROVE MadeHasProtocol'
  BY <1>4 DEF CallerCancelled, parentVars, proxyVars, callVars
<1>5. ASSUME NEW t \in Transport, SetProtocol(t) PROVE MadeHasProtocol'
  <2>1. gen[t] \in Number \cup {0} /\ gen[t] < Generations[t]
    BY <1>5 DEF SetProtocol
  <2>2. Generations[t] \in Nat
    BY ConnectionAssumption
  <2>3. gen[t] \in Nat /\ gen[t] < Generations[t] /\ Generations[t] \in Nat
    <3>1. Number \cup {0} \subseteq Nat
      BY Numbers
    <3>2. gen[t] \in Nat
      BY ONLY <2>1, <3>1, Zenon
    <3> QED BY ONLY <2>1, <2>2, <3>2
  <2>4. gen[t] + 1 \in 1..Generations[t]
    BY ONLY <2>3
  <2>5. gen[t] + 1 \in Number /\ gen[t] + 1 > 0
    BY ONLY <2>3, <2>4, Numbers, t \in Transport
  <2> QED BY <1>5, <2>5, Numbers DEF SetProtocol, parentVars, proxyVars, callVars
<1>6. ASSUME NEW t \in Transport, Close(t) PROVE MadeHasProtocol'
  BY <1>6 DEF Close, Closed, parentVars, proxyVars, callVars
<1>7. ASSUME NEW t \in Transport, ConnectionMade(t) PROVE MadeHasProtocol'
  BY <1>7 DEF ConnectionMade, parentVars, proxyVars, callVars
<1>8. ASSUME NEW t \in Transport, Drop(t) PROVE MadeHasProtocol'
  BY <1>8 DEF Drop, parentVars, proxyVars, callVars
<1>9. ASSUME NEW t \in Transport, BelowLost(t) PROVE MadeHasProtocol'
  BY <1>9 DEF BelowLost, parentVars, proxyVars, callVars
<1>10. ASSUME NEW t \in Transport, ConnectionLost(t) PROVE MadeHasProtocol'
  BY <1>10 DEF ConnectionLost, parentVars, proxyVars, callVars
<1>11. ASSUME NEW c \in Call, Begin(c) PROVE MadeHasProtocol'
  BY <1>11 DEF Begin, parentVars, proxyVars, callVars
<1>12. ASSUME NEW c \in Call, CancelCall(c) PROVE MadeHasProtocol'
  BY <1>12 DEF CancelCall, parentVars, proxyVars, callVars
<1>13. ASSUME NEW c \in Call, Wake(c) PROVE MadeHasProtocol'
  BY <1>13 DEF Wake, parentVars, proxyVars, callVars
<1>14. ASSUME NEW c \in Call, End(c) PROVE MadeHasProtocol'
  BY <1>14 DEF End, Queued, parentVars, proxyVars, callVars
<1>15. ASSUME NEW c \in Call, NEW t \in Transport, Treat(c, t) PROVE MadeHasProtocol'
  <2>0. Treated(c, t)
    BY <1>15, <1>t
  <2> QED BY <1>15, <2>0 DEF Treated, Treat, parentVars, proxyVars, callVars
<1>16. CASE UNCHANGED vars
  BY <1>16 DEF vars, parentVars, proxyVars, callVars
<1> QED
  BY <1>1, <1>2, <1>3, <1>4, <1>5, <1>6, <1>7, <1>8, <1>9, <1>10, <1>11, <1>12, <1>13, <1>14, <1>15, <1>16
  DEF Next, Program, Lost, Proceed

(* A call only treats its snapshot, and is cancelled while it awaits. *)
LEMMA OrderStep ==
  TypeOK /\ MadeHasProtocol /\ CallsInOrder /\ [Next]_vars => CallsInOrder'
<1> SUFFICES ASSUME TypeOK, MadeHasProtocol, CallsInOrder, [Next]_vars
             PROVE  CallsInOrder'
  OBVIOUS
<1>t. \A c \in Call, t \in Transport : Treat(c, t) => Treated(c, t)
  BY TreatEffect
<1> USE ConnectionAssumption DEF TypeOK, CallsInOrder
<1>1. ASSUME NEW t \in Transport, Connect(t) PROVE CallsInOrder'
  BY <1>1 DEF Connect, parentVars, proxyVars, callVars
<1>2. ASSUME NEW t \in Transport, StartTls(t) PROVE CallsInOrder'
  BY <1>2 DEF StartTls, parentVars, proxyVars, callVars
<1>3. ASSUME NEW t \in Transport, CallerResumes(t) PROVE CallsInOrder'
  BY <1>3 DEF CallerResumes, parentVars, proxyVars, callVars
<1>4. ASSUME NEW t \in Transport, CallerCancelled(t) PROVE CallsInOrder'
  BY <1>4 DEF CallerCancelled, parentVars, proxyVars, callVars
<1>5. ASSUME NEW t \in Transport, SetProtocol(t) PROVE CallsInOrder'
  <2>1. gen[t] \in Number \cup {0} /\ gen[t] < Generations[t]
    BY <1>5 DEF SetProtocol
  <2>2. Generations[t] \in Nat
    BY ConnectionAssumption
  <2>3. gen[t] \in Nat /\ gen[t] < Generations[t] /\ Generations[t] \in Nat
    <3>1. Number \cup {0} \subseteq Nat
      BY Numbers
    <3>2. gen[t] \in Nat
      BY ONLY <2>1, <3>1, Zenon
    <3> QED BY ONLY <2>1, <2>2, <3>2
  <2>4. gen[t] + 1 \in 1..Generations[t]
    BY ONLY <2>3
  <2>5. gen[t] + 1 \in Number /\ gen[t] + 1 > 0
    BY ONLY <2>3, <2>4, Numbers, t \in Transport
  <2> QED BY <1>5, <2>5, Numbers DEF SetProtocol, parentVars, proxyVars, callVars
<1>6. ASSUME NEW t \in Transport, Close(t) PROVE CallsInOrder'
  BY <1>6 DEF Close, Closed, parentVars, proxyVars, callVars
<1>7. ASSUME NEW t \in Transport, ConnectionMade(t) PROVE CallsInOrder'
  BY <1>7 DEF ConnectionMade, parentVars, proxyVars, callVars
<1>8. ASSUME NEW t \in Transport, Drop(t) PROVE CallsInOrder'
  BY <1>8 DEF Drop, parentVars, proxyVars, callVars
<1>9. ASSUME NEW t \in Transport, BelowLost(t) PROVE CallsInOrder'
  BY <1>9 DEF BelowLost, parentVars, proxyVars, callVars
<1>10. ASSUME NEW t \in Transport, ConnectionLost(t) PROVE CallsInOrder'
  BY <1>10 DEF ConnectionLost, parentVars, proxyVars, callVars
<1>11. ASSUME NEW c \in Call, Begin(c) PROVE CallsInOrder'
  BY <1>11 DEF Begin, parentVars, proxyVars, callVars
<1>12. ASSUME NEW c \in Call, CancelCall(c) PROVE CallsInOrder'
  BY <1>12 DEF CancelCall, parentVars, proxyVars, callVars
<1>13. ASSUME NEW c \in Call, Wake(c) PROVE CallsInOrder'
  BY <1>13 DEF Wake, parentVars, proxyVars, callVars
<1>14. ASSUME NEW c \in Call, End(c) PROVE CallsInOrder'
  BY <1>14 DEF End, Queued, parentVars, proxyVars, callVars
<1>15. ASSUME NEW c \in Call, NEW t \in Transport, Treat(c, t) PROVE CallsInOrder'
  <2>0. Treated(c, t)
    BY <1>15, <1>t
  <2>1. gen[t] # 0 => <<t, gen[t]>> \in Protocol
    BY DEF Protocol
  <2>2. \/ UNCHANGED <<pc, awaited>>
        \/ /\ gen[t] # 0 /\ awaited' = [awaited EXCEPT ![c] = <<t, gen[t]>>]
           /\ \E x \in {"waiting", "cancelled"} : pc' = [pc EXCEPT ![c] = x]
    BY <2>0 DEF Treated
  <2> QED BY <1>15, <2>1, <2>2 DEF Treat, parentVars, proxyVars, callVars
<1>16. CASE UNCHANGED vars
  BY <1>16 DEF vars, parentVars, proxyVars, callVars
<1> QED
  BY <1>1, <1>2, <1>3, <1>4, <1>5, <1>6, <1>7, <1>8, <1>9, <1>10, <1>11, <1>12, <1>13, <1>14, <1>15, <1>16
  DEF Next, Program, Lost, Proceed

(* Whoever was cancelled while it awaited a protocol proxy awaits it for *)
(* good: a cancelled call treats nothing more.                            *)
LEMMA AskedStays ==
  ASSUME TypeOK, CallsInOrder, [Next]_vars
  PROVE  \A p : AskedFor(p) => AskedFor(p)'
<1>t. \A c \in Call, t \in Transport : Treat(c, t) => Treated(c, t)
  BY TreatEffect
<1> USE DEF TypeOK, CallsInOrder, AskedFor
<1>1. ASSUME NEW t \in Transport, Connect(t) PROVE \A p : AskedFor(p) => AskedFor(p)'
  BY <1>1 DEF Connect, parentVars, proxyVars, callVars
<1>2. ASSUME NEW t \in Transport, StartTls(t) PROVE \A p : AskedFor(p) => AskedFor(p)'
  BY <1>2 DEF StartTls, parentVars, proxyVars, callVars
<1>3. ASSUME NEW t \in Transport, CallerResumes(t) PROVE \A p : AskedFor(p) => AskedFor(p)'
  BY <1>3 DEF CallerResumes, parentVars, proxyVars, callVars
<1>4. ASSUME NEW t \in Transport, CallerCancelled(t) PROVE \A p : AskedFor(p) => AskedFor(p)'
  BY <1>4 DEF CallerCancelled, parentVars, proxyVars, callVars
<1>5. ASSUME NEW t \in Transport, SetProtocol(t) PROVE \A p : AskedFor(p) => AskedFor(p)'
  BY <1>5 DEF SetProtocol, parentVars, proxyVars, callVars
<1>6. ASSUME NEW t \in Transport, Close(t) PROVE \A p : AskedFor(p) => AskedFor(p)'
  BY <1>6 DEF Close, Closed, parentVars, proxyVars, callVars
<1>7. ASSUME NEW t \in Transport, ConnectionMade(t) PROVE \A p : AskedFor(p) => AskedFor(p)'
  BY <1>7 DEF ConnectionMade, parentVars, proxyVars, callVars
<1>8. ASSUME NEW t \in Transport, Drop(t) PROVE \A p : AskedFor(p) => AskedFor(p)'
  BY <1>8 DEF Drop, parentVars, proxyVars, callVars
<1>9. ASSUME NEW t \in Transport, BelowLost(t) PROVE \A p : AskedFor(p) => AskedFor(p)'
  BY <1>9 DEF BelowLost, parentVars, proxyVars, callVars
<1>10. ASSUME NEW t \in Transport, ConnectionLost(t) PROVE \A p : AskedFor(p) => AskedFor(p)'
  BY <1>10 DEF ConnectionLost, parentVars, proxyVars, callVars
<1>11. ASSUME NEW c \in Call, Begin(c) PROVE \A p : AskedFor(p) => AskedFor(p)'
  BY <1>11 DEF Begin, parentVars, proxyVars, callVars
<1>12. ASSUME NEW c \in Call, CancelCall(c) PROVE \A p : AskedFor(p) => AskedFor(p)'
  BY <1>12 DEF CancelCall, parentVars, proxyVars, callVars
<1>13. ASSUME NEW c \in Call, Wake(c) PROVE \A p : AskedFor(p) => AskedFor(p)'
  BY <1>13 DEF Wake, parentVars, proxyVars, callVars
<1>14. ASSUME NEW c \in Call, End(c) PROVE \A p : AskedFor(p) => AskedFor(p)'
  BY <1>14 DEF End, Queued, parentVars, proxyVars, callVars
<1>15. ASSUME NEW c \in Call, NEW t \in Transport, Treat(c, t) PROVE \A p : AskedFor(p) => AskedFor(p)'
  <2>0. Treated(c, t)
    BY <1>15, <1>t
  <2>1. c \notin asked /\ asked' = asked
    BY <1>15 DEF Treat
  <2>2. \A d \in Call \ {c} : awaited'[d] = awaited[d]
    BY <2>0 DEF Treated
  <2> QED BY <2>1, <2>2
<1>16. CASE UNCHANGED vars
  BY <1>16 DEF vars, parentVars, proxyVars, callVars
<1> QED
  BY <1>1, <1>2, <1>3, <1>4, <1>5, <1>6, <1>7, <1>8, <1>9, <1>10, <1>11, <1>12, <1>13, <1>14, <1>15, <1>16
  DEF Next, Program, Lost, Proceed

(* wait_closed is set by connection_lost() alone, with the transport lost. *)
LEMMA ResultStep ==
  TypeOK /\ ResultIsLost /\ [Next]_vars => ResultIsLost'
<1> SUFFICES ASSUME TypeOK, ResultIsLost, [Next]_vars
             PROVE  ResultIsLost'
  OBVIOUS
<1>t. \A c \in Call, t \in Transport : Treat(c, t) => Treated(c, t)
  BY TreatEffect
<1> USE ConnectionAssumption DEF TypeOK, ResultIsLost
<1>1. ASSUME NEW t \in Transport, Connect(t) PROVE ResultIsLost'
  BY <1>1 DEF Connect, parentVars, proxyVars, callVars
<1>2. ASSUME NEW t \in Transport, StartTls(t) PROVE ResultIsLost'
  BY <1>2 DEF StartTls, parentVars, proxyVars, callVars
<1>3. ASSUME NEW t \in Transport, CallerResumes(t) PROVE ResultIsLost'
  BY <1>3 DEF CallerResumes, parentVars, proxyVars, callVars
<1>4. ASSUME NEW t \in Transport, CallerCancelled(t) PROVE ResultIsLost'
  BY <1>4 DEF CallerCancelled, parentVars, proxyVars, callVars
<1>5. ASSUME NEW t \in Transport, SetProtocol(t) PROVE ResultIsLost'
  BY <1>5 DEF SetProtocol, parentVars, proxyVars, callVars
<1>6. ASSUME NEW t \in Transport, Close(t) PROVE ResultIsLost'
  BY <1>6 DEF Close, Closed, parentVars, proxyVars, callVars
<1>7. ASSUME NEW t \in Transport, ConnectionMade(t) PROVE ResultIsLost'
  BY <1>7 DEF ConnectionMade, parentVars, proxyVars, callVars
<1>8. ASSUME NEW t \in Transport, Drop(t) PROVE ResultIsLost'
  BY <1>8 DEF Drop, parentVars, proxyVars, callVars
<1>9. ASSUME NEW t \in Transport, BelowLost(t) PROVE ResultIsLost'
  BY <1>9 DEF BelowLost, parentVars, proxyVars, callVars
<1>10. ASSUME NEW t \in Transport, ConnectionLost(t) PROVE ResultIsLost'
  BY <1>10 DEF ConnectionLost, parentVars, proxyVars, callVars
<1>11. ASSUME NEW c \in Call, Begin(c) PROVE ResultIsLost'
  BY <1>11 DEF Begin, parentVars, proxyVars, callVars
<1>12. ASSUME NEW c \in Call, CancelCall(c) PROVE ResultIsLost'
  BY <1>12 DEF CancelCall, parentVars, proxyVars, callVars
<1>13. ASSUME NEW c \in Call, Wake(c) PROVE ResultIsLost'
  BY <1>13 DEF Wake, parentVars, proxyVars, callVars
<1>14. ASSUME NEW c \in Call, End(c) PROVE ResultIsLost'
  BY <1>14 DEF End, Queued, parentVars, proxyVars, callVars
<1>15. ASSUME NEW c \in Call, NEW t \in Transport, Treat(c, t) PROVE ResultIsLost'
  <2>0. Treated(c, t)
    BY <1>15, <1>t
  <2> QED BY <1>15, <2>0 DEF Treated, Treat, parentVars, proxyVars, callVars
<1>16. CASE UNCHANGED vars
  BY <1>16 DEF vars, parentVars, proxyVars, callVars
<1> QED
  BY <1>1, <1>2, <1>3, <1>4, <1>5, <1>6, <1>7, <1>8, <1>9, <1>10, <1>11, <1>12, <1>13, <1>14, <1>15, <1>16
  DEF Next, Program, Lost, Proceed

(* wait_closed is cancelled only through a call that awaits it. *)
LEMMA CancelStep ==
  TypeOK /\ CallsInOrder /\ CancelIsAsked /\ [Next]_vars => CancelIsAsked'
<1> SUFFICES ASSUME TypeOK, CallsInOrder, CancelIsAsked, [Next]_vars
             PROVE  CancelIsAsked'
  OBVIOUS
<1>t. \A c \in Call, t \in Transport : Treat(c, t) => Treated(c, t)
  BY TreatEffect
<1>0. \A p : AskedFor(p) => AskedFor(p)'
  BY AskedStays
<1> USE DEF TypeOK, CancelIsAsked
<1>1. ASSUME NEW t \in Transport, Connect(t) PROVE CancelIsAsked'
  BY <1>0, <1>1 DEF Connect, parentVars, proxyVars, callVars
<1>2. ASSUME NEW t \in Transport, StartTls(t) PROVE CancelIsAsked'
  BY <1>0, <1>2 DEF StartTls, parentVars, proxyVars, callVars
<1>3. ASSUME NEW t \in Transport, CallerResumes(t) PROVE CancelIsAsked'
  BY <1>0, <1>3 DEF CallerResumes, parentVars, proxyVars, callVars
<1>4. ASSUME NEW t \in Transport, CallerCancelled(t) PROVE CancelIsAsked'
  BY <1>0, <1>4 DEF CallerCancelled, parentVars, proxyVars, callVars
<1>5. ASSUME NEW t \in Transport, SetProtocol(t) PROVE CancelIsAsked'
  BY <1>0, <1>5 DEF SetProtocol, parentVars, proxyVars, callVars
<1>6. ASSUME NEW t \in Transport, Close(t) PROVE CancelIsAsked'
  BY <1>0, <1>6 DEF Close, Closed, parentVars, proxyVars, callVars
<1>7. ASSUME NEW t \in Transport, ConnectionMade(t) PROVE CancelIsAsked'
  BY <1>0, <1>7 DEF ConnectionMade, parentVars, proxyVars, callVars
<1>8. ASSUME NEW t \in Transport, Drop(t) PROVE CancelIsAsked'
  BY <1>0, <1>8 DEF Drop, parentVars, proxyVars, callVars
<1>9. ASSUME NEW t \in Transport, BelowLost(t) PROVE CancelIsAsked'
  BY <1>0, <1>9 DEF BelowLost, parentVars, proxyVars, callVars
<1>10. ASSUME NEW t \in Transport, ConnectionLost(t) PROVE CancelIsAsked'
  BY <1>0, <1>10 DEF ConnectionLost, parentVars, proxyVars, callVars
<1>11. ASSUME NEW c \in Call, Begin(c) PROVE CancelIsAsked'
  BY <1>0, <1>11 DEF Begin, parentVars, proxyVars, callVars
<1>12. ASSUME NEW c \in Call, CancelCall(c) PROVE CancelIsAsked'
  <2>1. awaited[c] \in Transport \X Number
    BY <1>12 DEF CancelCall, CallsInOrder, Protocol
  <2>2. AskedFor(awaited[c])'
    <3>1. c \in asked' /\ awaited' = awaited
      BY <1>12 DEF CancelCall
    <3> QED BY <3>1 DEF AskedFor
  <2>3. awaited[c] = <<awaited[c][1], awaited[c][2]>>
    BY <2>1
  <2>4. waitClosed' = [waitClosed EXCEPT ![awaited[c][1]][awaited[c][2]] =
                IF waitClosed[awaited[c][1]][awaited[c][2]] = "pending" THEN "cancelled"
                ELSE waitClosed[awaited[c][1]][awaited[c][2]]]
    BY <1>12 DEF CancelCall
  <2> QED
    <3> SUFFICES ASSUME NEW x \in Transport, NEW n \in Number, waitClosed'[x][n] = "cancelled"
                 PROVE  AskedFor(<<x, n>>)'
      OBVIOUS
    <3>1. CASE <<x, n>> = awaited[c]
      <4>1. awaited' = awaited
        BY <1>12 DEF CancelCall
      <4> QED BY <2>2, <3>1, <4>1
    <3>2. CASE <<x, n>> # awaited[c]
      <4>1. waitClosed'[x][n] = waitClosed[x][n]
        BY <2>1, <2>3, <2>4, <3>2
      <4> QED BY <1>0, <4>1
    <3> QED BY <3>1, <3>2
<1>13. ASSUME NEW c \in Call, Wake(c) PROVE CancelIsAsked'
  BY <1>0, <1>13 DEF Wake, parentVars, proxyVars, callVars
<1>14. ASSUME NEW c \in Call, End(c) PROVE CancelIsAsked'
  BY <1>0, <1>14 DEF End, Queued, parentVars, proxyVars, callVars
<1>15. ASSUME NEW c \in Call, NEW t \in Transport, Treat(c, t) PROVE CancelIsAsked'
  BY <1>0, <1>15 DEF Treat, parentVars, proxyVars, callVars
<1>16. CASE UNCHANGED vars
  BY <1>0, <1>16 DEF vars, parentVars, proxyVars, callVars
<1> QED
  BY <1>1, <1>2, <1>3, <1>4, <1>5, <1>6, <1>7, <1>8, <1>9, <1>10, <1>11, <1>12, <1>13, <1>14, <1>15, <1>16
  DEF Next, Program, Lost, Proceed

(* CancelledError reaches a call from its own cancel(), or from the shared *)
(* future that another call's cancel() has cancelled.                     *)
LEMMA CallsAskedStep ==
  TypeOK /\ CallsInOrder /\ CancelIsAsked /\ CallsAreAsked /\ [Next]_vars => CallsAreAsked'
<1> SUFFICES ASSUME TypeOK, CallsInOrder, CancelIsAsked, CallsAreAsked, [Next]_vars
             PROVE  CallsAreAsked'
  OBVIOUS
<1>t. \A c \in Call, t \in Transport : Treat(c, t) => Treated(c, t)
  BY TreatEffect
<1>0. \A p : AskedFor(p) => AskedFor(p)'
  BY AskedStays
<1> USE DEF TypeOK, CallsInOrder, CallsAreAsked
<1>1. ASSUME NEW t \in Transport, Connect(t) PROVE CallsAreAsked'
  BY <1>0, <1>1 DEF Connect, parentVars, proxyVars, callVars
<1>2. ASSUME NEW t \in Transport, StartTls(t) PROVE CallsAreAsked'
  BY <1>0, <1>2 DEF StartTls, parentVars, proxyVars, callVars
<1>3. ASSUME NEW t \in Transport, CallerResumes(t) PROVE CallsAreAsked'
  BY <1>0, <1>3 DEF CallerResumes, parentVars, proxyVars, callVars
<1>4. ASSUME NEW t \in Transport, CallerCancelled(t) PROVE CallsAreAsked'
  BY <1>0, <1>4 DEF CallerCancelled, parentVars, proxyVars, callVars
<1>5. ASSUME NEW t \in Transport, SetProtocol(t) PROVE CallsAreAsked'
  BY <1>0, <1>5 DEF SetProtocol, parentVars, proxyVars, callVars
<1>6. ASSUME NEW t \in Transport, Close(t) PROVE CallsAreAsked'
  BY <1>0, <1>6 DEF Close, Closed, parentVars, proxyVars, callVars
<1>7. ASSUME NEW t \in Transport, ConnectionMade(t) PROVE CallsAreAsked'
  BY <1>0, <1>7 DEF ConnectionMade, parentVars, proxyVars, callVars
<1>8. ASSUME NEW t \in Transport, Drop(t) PROVE CallsAreAsked'
  BY <1>0, <1>8 DEF Drop, parentVars, proxyVars, callVars
<1>9. ASSUME NEW t \in Transport, BelowLost(t) PROVE CallsAreAsked'
  BY <1>0, <1>9 DEF BelowLost, parentVars, proxyVars, callVars
<1>10. ASSUME NEW t \in Transport, ConnectionLost(t) PROVE CallsAreAsked'
  BY <1>0, <1>10 DEF ConnectionLost, parentVars, proxyVars, callVars
<1>11. ASSUME NEW c \in Call, Begin(c) PROVE CallsAreAsked'
  BY <1>0, <1>11 DEF Begin, parentVars, proxyVars, callVars
<1>12. ASSUME NEW c \in Call, CancelCall(c) PROVE CallsAreAsked'
  BY <1>0, <1>12 DEF CancelCall, parentVars, proxyVars, callVars
<1>13. ASSUME NEW c \in Call, Wake(c) PROVE CallsAreAsked'
  <2>1. awaited[c] \in Transport \X Number /\ awaited[c] = <<awaited[c][1], awaited[c][2]>>
    BY <1>13 DEF Wake, Protocol
  <2>2. CASE c \in asked
    BY <1>0, <1>13, <2>2 DEF Wake, AskedFor, parentVars, proxyVars, callVars
  <2>3. CASE c \notin asked
    BY <1>0, <1>13, <2>1, <2>3 DEF Wake, Waiters, CancelIsAsked, parentVars, proxyVars, callVars
  <2> QED BY <2>2, <2>3
<1>14. ASSUME NEW c \in Call, End(c) PROVE CallsAreAsked'
  BY <1>0, <1>14 DEF End, Queued, parentVars, proxyVars, callVars
<1>15. ASSUME NEW c \in Call, NEW t \in Transport, Treat(c, t) PROVE CallsAreAsked'
  <2>0. Treated(c, t)
    BY <1>15, <1>t
  <2>1. AskedFor(<<t, gen[t]>>) \/ gen[t] = 0 \/ Waiters(<<t, gen[t]>>) # "cancelled"
    BY DEF CancelIsAsked, Waiters
  <2>2. \/ UNCHANGED <<pc, awaited>>
        \/ /\ gen[t] # 0 /\ awaited' = [awaited EXCEPT ![c] = <<t, gen[t]>>]
           /\ \/ Waiters(<<t, gen[t]>>) = "cancelled" /\ pc' = [pc EXCEPT ![c] = "cancelled"]
              \/ pc' = [pc EXCEPT ![c] = "waiting"]
    BY <2>0 DEF Treated
  <2> QED BY <1>0, <2>1, <2>2
<1>16. CASE UNCHANGED vars
  BY <1>0, <1>16 DEF vars, parentVars, proxyVars, callVars
<1> QED
  BY <1>1, <1>2, <1>3, <1>4, <1>5, <1>6, <1>7, <1>8, <1>9, <1>10, <1>11, <1>12, <1>13, <1>14, <1>15, <1>16
  DEF Next, Program, Lost, Proceed

(* set_result() fails only on a future that a call has cancelled: it has not *)
(* been set, as the transport was not lost.                                 *)
LEMMA RefusedStep ==
  TypeOK /\ MadeHasProtocol /\ CallsInOrder /\ ResultIsLost /\ CancelIsAsked /\ RefusedAsked /\ [Next]_vars => RefusedAsked'
<1> SUFFICES ASSUME TypeOK, MadeHasProtocol, CallsInOrder, ResultIsLost, CancelIsAsked, RefusedAsked, [Next]_vars
             PROVE  RefusedAsked'
  OBVIOUS
<1>t. \A c \in Call, t \in Transport : Treat(c, t) => Treated(c, t)
  BY TreatEffect
<1>0. \A p : AskedFor(p) => AskedFor(p)'
  BY AskedStays
<1> USE DEF TypeOK, RefusedAsked
<1>1. ASSUME NEW t \in Transport, Connect(t) PROVE RefusedAsked'
  BY <1>0, <1>1 DEF Connect, parentVars, proxyVars, callVars
<1>2. ASSUME NEW t \in Transport, StartTls(t) PROVE RefusedAsked'
  BY <1>0, <1>2 DEF StartTls, parentVars, proxyVars, callVars
<1>3. ASSUME NEW t \in Transport, CallerResumes(t) PROVE RefusedAsked'
  BY <1>0, <1>3 DEF CallerResumes, parentVars, proxyVars, callVars
<1>4. ASSUME NEW t \in Transport, CallerCancelled(t) PROVE RefusedAsked'
  BY <1>0, <1>4 DEF CallerCancelled, parentVars, proxyVars, callVars
<1>5. ASSUME NEW t \in Transport, SetProtocol(t) PROVE RefusedAsked'
  BY <1>0, <1>5 DEF SetProtocol, parentVars, proxyVars, callVars
<1>6. ASSUME NEW t \in Transport, Close(t) PROVE RefusedAsked'
  BY <1>0, <1>6 DEF Close, Closed, parentVars, proxyVars, callVars
<1>7. ASSUME NEW t \in Transport, ConnectionMade(t) PROVE RefusedAsked'
  BY <1>0, <1>7 DEF ConnectionMade, parentVars, proxyVars, callVars
<1>8. ASSUME NEW t \in Transport, Drop(t) PROVE RefusedAsked'
  BY <1>0, <1>8 DEF Drop, parentVars, proxyVars, callVars
<1>9. ASSUME NEW t \in Transport, BelowLost(t) PROVE RefusedAsked'
  BY <1>0, <1>9 DEF BelowLost, parentVars, proxyVars, callVars
<1>10. ASSUME NEW t \in Transport, ConnectionLost(t) PROVE RefusedAsked'
  <2>1. CASE refused' = refused
    BY <1>0, <2>1
  <2>2. CASE refused' = refused \cup {<<t, gen[t]>>} /\ Waiters(<<t, gen[t]>>) # "pending"
    <3>1. gen[t] \in Number /\ st[t] = "ending"
      BY <1>10 DEF ConnectionLost, MadeHasProtocol, Live
    <3>2. waitClosed[t][gen[t]] = "cancelled"
      BY <2>2, <3>1 DEF Waiters, ResultIsLost
    <3>3. AskedFor(<<t, gen[t]>>)
      BY <3>1, <3>2 DEF CancelIsAsked
    <3> QED BY <1>0, <2>2, <3>3
  <2> QED BY <1>10, <2>1, <2>2 DEF ConnectionLost
<1>11. ASSUME NEW c \in Call, Begin(c) PROVE RefusedAsked'
  BY <1>0, <1>11 DEF Begin, parentVars, proxyVars, callVars
<1>12. ASSUME NEW c \in Call, CancelCall(c) PROVE RefusedAsked'
  BY <1>0, <1>12 DEF CancelCall, parentVars, proxyVars, callVars
<1>13. ASSUME NEW c \in Call, Wake(c) PROVE RefusedAsked'
  BY <1>0, <1>13 DEF Wake, parentVars, proxyVars, callVars
<1>14. ASSUME NEW c \in Call, End(c) PROVE RefusedAsked'
  BY <1>0, <1>14 DEF End, Queued, parentVars, proxyVars, callVars
<1>15. ASSUME NEW c \in Call, NEW t \in Transport, Treat(c, t) PROVE RefusedAsked'
  BY <1>0, <1>15 DEF Treat, parentVars, proxyVars, callVars
<1>16. CASE UNCHANGED vars
  BY <1>0, <1>16 DEF vars, parentVars, proxyVars, callVars
<1> QED
  BY <1>1, <1>2, <1>3, <1>4, <1>5, <1>6, <1>7, <1>8, <1>9, <1>10, <1>11, <1>12, <1>13, <1>14, <1>15, <1>16
  DEF Next, Program, Lost, Proceed

(* A transport that is settled stays so: lost is final, and what ends above *)
(* or below a TLS connection goes only towards lost.                        *)
LEMMA SettledStays ==
  ASSUME TypeOK, MadeHasProtocol, [Next]_vars
  PROVE  \A x \in Transport : Settled(x) => Settled(x)'
<1>t. \A c \in Call, t \in Transport : Treat(c, t) => Treated(c, t)
  BY TreatEffect
<1> USE ConnectionAssumption DEF TypeOK, State, Live, MadeHasProtocol, Settled
<1>1. ASSUME NEW t \in Transport, Connect(t) PROVE \A x \in Transport : Settled(x) => Settled(x)'
  BY <1>1 DEF Connect, parentVars, proxyVars, callVars
<1>2. ASSUME NEW t \in Transport, StartTls(t) PROVE \A x \in Transport : Settled(x) => Settled(x)'
  BY <1>2 DEF StartTls, parentVars, proxyVars, callVars
<1>3. ASSUME NEW t \in Transport, CallerResumes(t) PROVE \A x \in Transport : Settled(x) => Settled(x)'
  BY <1>3 DEF CallerResumes, parentVars, proxyVars, callVars
<1>4. ASSUME NEW t \in Transport, CallerCancelled(t) PROVE \A x \in Transport : Settled(x) => Settled(x)'
  BY <1>4 DEF CallerCancelled, parentVars, proxyVars, callVars
<1>5. ASSUME NEW t \in Transport, SetProtocol(t) PROVE \A x \in Transport : Settled(x) => Settled(x)'
  BY <1>5 DEF SetProtocol, parentVars, proxyVars, callVars
<1>6. ASSUME NEW t \in Transport, Close(t) PROVE \A x \in Transport : Settled(x) => Settled(x)'
  BY <1>6 DEF Close, Closed, parentVars, proxyVars, callVars
<1>7. ASSUME NEW t \in Transport, ConnectionMade(t) PROVE \A x \in Transport : Settled(x) => Settled(x)'
  BY <1>7 DEF ConnectionMade, parentVars, proxyVars, callVars
<1>8. ASSUME NEW t \in Transport, Drop(t) PROVE \A x \in Transport : Settled(x) => Settled(x)'
  BY <1>8 DEF Drop, parentVars, proxyVars, callVars
<1>9. ASSUME NEW t \in Transport, BelowLost(t) PROVE \A x \in Transport : Settled(x) => Settled(x)'
  BY <1>9 DEF BelowLost, parentVars, proxyVars, callVars
<1>10. ASSUME NEW t \in Transport, ConnectionLost(t) PROVE \A x \in Transport : Settled(x) => Settled(x)'
  BY <1>10 DEF ConnectionLost, parentVars, proxyVars, callVars
<1>11. ASSUME NEW c \in Call, Begin(c) PROVE \A x \in Transport : Settled(x) => Settled(x)'
  BY <1>11 DEF Begin, parentVars, proxyVars, callVars
<1>12. ASSUME NEW c \in Call, CancelCall(c) PROVE \A x \in Transport : Settled(x) => Settled(x)'
  BY <1>12 DEF CancelCall, parentVars, proxyVars, callVars
<1>13. ASSUME NEW c \in Call, Wake(c) PROVE \A x \in Transport : Settled(x) => Settled(x)'
  BY <1>13 DEF Wake, parentVars, proxyVars, callVars
<1>14. ASSUME NEW c \in Call, End(c) PROVE \A x \in Transport : Settled(x) => Settled(x)'
  BY <1>14 DEF End, Queued, parentVars, proxyVars, callVars
<1>15. ASSUME NEW c \in Call, NEW t \in Transport, Treat(c, t) PROVE \A x \in Transport : Settled(x) => Settled(x)'
  <2>0. Treated(c, t)
    BY <1>15, <1>t
  <2> QED BY <1>15, <2>0 DEF Treated, Treat, parentVars, proxyVars, callVars
<1>16. CASE UNCHANGED vars
  BY <1>16 DEF vars, parentVars, proxyVars, callVars
<1> QED
  BY <1>1, <1>2, <1>3, <1>4, <1>5, <1>6, <1>7, <1>8, <1>9, <1>10, <1>11, <1>12, <1>13, <1>14, <1>15, <1>16
  DEF Next, Program, Lost, Proceed

(* A call goes on when the transport it waits for is lost, and passes over *)
(* only those that have no protocol proxy to wait for.                     *)
LEMMA SettledStep ==
  TypeOK /\ MadeHasProtocol /\ CallsInOrder /\ ResultIsLost /\ TreatedIsSettled /\ [Next]_vars => TreatedIsSettled'
<1> SUFFICES ASSUME TypeOK, MadeHasProtocol, CallsInOrder, ResultIsLost, TreatedIsSettled, [Next]_vars
             PROVE  TreatedIsSettled'
  OBVIOUS
<1>t. \A c \in Call, t \in Transport : Treat(c, t) => Treated(c, t)
  BY TreatEffect
<1>0. \A x \in Transport : Settled(x) => Settled(x)'
  BY SettledStays
<1> USE DEF TypeOK, TreatedIsSettled
<1>1. ASSUME NEW t \in Transport, Connect(t) PROVE TreatedIsSettled'
  BY <1>0, <1>1 DEF Connect, parentVars, proxyVars, callVars
<1>2. ASSUME NEW t \in Transport, StartTls(t) PROVE TreatedIsSettled'
  BY <1>0, <1>2 DEF StartTls, parentVars, proxyVars, callVars
<1>3. ASSUME NEW t \in Transport, CallerResumes(t) PROVE TreatedIsSettled'
  BY <1>0, <1>3 DEF CallerResumes, parentVars, proxyVars, callVars
<1>4. ASSUME NEW t \in Transport, CallerCancelled(t) PROVE TreatedIsSettled'
  BY <1>0, <1>4 DEF CallerCancelled, parentVars, proxyVars, callVars
<1>5. ASSUME NEW t \in Transport, SetProtocol(t) PROVE TreatedIsSettled'
  BY <1>0, <1>5 DEF SetProtocol, parentVars, proxyVars, callVars
<1>6. ASSUME NEW t \in Transport, Close(t) PROVE TreatedIsSettled'
  BY <1>0, <1>6 DEF Close, Closed, parentVars, proxyVars, callVars
<1>7. ASSUME NEW t \in Transport, ConnectionMade(t) PROVE TreatedIsSettled'
  BY <1>0, <1>7 DEF ConnectionMade, parentVars, proxyVars, callVars
<1>8. ASSUME NEW t \in Transport, Drop(t) PROVE TreatedIsSettled'
  BY <1>0, <1>8 DEF Drop, parentVars, proxyVars, callVars
<1>9. ASSUME NEW t \in Transport, BelowLost(t) PROVE TreatedIsSettled'
  BY <1>0, <1>9 DEF BelowLost, parentVars, proxyVars, callVars
<1>10. ASSUME NEW t \in Transport, ConnectionLost(t) PROVE TreatedIsSettled'
  BY <1>0, <1>10 DEF ConnectionLost, parentVars, proxyVars, callVars
<1>11. ASSUME NEW c \in Call, Begin(c) PROVE TreatedIsSettled'
  BY <1>0, <1>11 DEF Begin, parentVars, proxyVars, callVars
<1>12. ASSUME NEW c \in Call, CancelCall(c) PROVE TreatedIsSettled'
  BY <1>0, <1>12 DEF CancelCall, parentVars, proxyVars, callVars
<1>13. ASSUME NEW c \in Call, Wake(c) PROVE TreatedIsSettled'
  <2>1. awaited[c] \in Transport \X Number
    BY <1>13 DEF Wake, CallsInOrder, Protocol
  <2>2. CASE waitClosed[awaited[c][1]][awaited[c][2]] = "result"
    <3>1. Settled(awaited[c][1])
      BY <2>1, <2>2 DEF ResultIsLost, Settled
    <3> QED BY <1>0, <1>13, <2>1, <3>1 DEF Wake, parentVars, proxyVars, callVars
  <2>3. CASE waitClosed[awaited[c][1]][awaited[c][2]] # "result"
    <3>1. Waiters(awaited[c]) = "cancelled"
      BY <1>13, <2>1, <2>3 DEF Wake, Waiters
    <3> QED BY <1>0, <1>13, <3>1 DEF Wake, parentVars, proxyVars, callVars
  <2> QED BY <2>2, <2>3
<1>14. ASSUME NEW c \in Call, End(c) PROVE TreatedIsSettled'
  BY <1>0, <1>14 DEF End, Queued, parentVars, proxyVars, callVars
<1>15. ASSUME NEW c \in Call, NEW t \in Transport, Treat(c, t) PROVE TreatedIsSettled'
  <2>0. Treated(c, t)
    BY <1>15, <1>t
  <2>1. gen[t] > 0 /\ st[t] \notin {"absent", "connecting"}
    BY <1>15 DEF Treat, CallsInOrder, MadeHasProtocol
  <2>2. 0 \in GetProtocol(t) => st[t] = "lost" \/ t \in ssl \/ (t \in Tls /\ st[t] = "ending")
    BY <2>1 DEF GetProtocol
  <2>3. /\ todo' = [todo EXCEPT ![c] = todo[c] \ {t}] /\ seen' = seen /\ ssl' = ssl
        /\ pc[c] = "turn"
    BY <1>15 DEF Treat
  <2>4. CASE 0 \in GetProtocol(t) /\ UNCHANGED <<pc, awaited>>
    <3>1. Settled(t)'
      BY <2>0, <2>1, <2>2, <2>3, <2>4 DEF Treated, Settled, State
    <3> QED BY <1>0, <2>3, <2>4, <3>1
  <2>5. CASE /\ awaited' = [awaited EXCEPT ![c] = <<t, gen[t]>>]
             /\ \E s \in {"cancelled", "waiting"} : pc' = [pc EXCEPT ![c] = s]
    <3>1. \A d \in Call \ {c} : pc'[d] = pc[d] /\ awaited'[d] = awaited[d] /\ todo'[d] = todo[d]
      BY <2>3, <2>5
    <3>2. awaited'[c] = <<t, gen[t]>> /\ pc'[c] \in {"cancelled", "waiting"} /\ todo'[c] = todo[c] \ {t}
      BY <2>3, <2>5
    <3>3. \A d \in Call \ {c} : pc'[d] # "cancelled" =>
             \A x \in seen'[d] \ todo'[d] : Settled(x)' \/ (pc'[d] \in {"waiting", "stranded"} /\ awaited'[d][1] = x)
      BY <1>0, <2>3, <3>1
    <3>4. pc'[c] # "cancelled" =>
             \A x \in seen'[c] \ todo'[c] : Settled(x)' \/ (pc'[c] \in {"waiting", "stranded"} /\ awaited'[c][1] = x)
      BY <1>0, <2>3, <3>2
    <3> QED BY <3>3, <3>4
  <2> QED BY <2>0, <2>4, <2>5 DEF Treated
<1>16. CASE UNCHANGED vars
  BY <1>0, <1>16 DEF vars, parentVars, proxyVars, callVars
<1> QED
  BY <1>1, <1>2, <1>3, <1>4, <1>5, <1>6, <1>7, <1>8, <1>9, <1>10, <1>11, <1>12, <1>13, <1>14, <1>15, <1>16
  DEF Next, Program, Lost, Proceed

-----------------------------------------------------------------------------
(* The theorems *)

(* No transport is connected and no call begun in the initial state. *)
LEMMA InitInv == Init => Inv
  BY Numbers, ConnectionAssumption
  DEF Init, Inv, TypeOK, State, MadeHasProtocol, Live, CallsInOrder, ResultIsLost, CancelIsAsked,
      CallsAreAsked, RefusedAsked, TreatedIsSettled

(* The invariant holds in every reachable state. *)
LEMMA InvAlways == Spec => []Inv
<1>1. Inv /\ [Next]_vars => Inv'
  <2> SUFFICES ASSUME Inv, [Next]_vars
               PROVE  Inv'
    OBVIOUS
  <2> QED
    BY TypeStep, MadeStep, OrderStep, ResultStep, CancelStep, CallsAskedStep, RefusedStep, SettledStep
    DEF Inv
<1> QED BY InitInv, <1>1, PTL DEF Spec

(* What is registered has had its connection_made(), a caller that waits is *)
(* not registered yet, and only calls that await something are cancelled.   *)
THEOREM TypeCorrect == Spec => []TypeOK
<1>1. Inv => TypeOK
  BY DEF Inv
<1> QED BY InvAlways, <1>1, PTL

(* When check_and_shutdown() returns, every transport of its snapshot is lost, *)
(* whatever set_protocol(), start_tls(), close() and the peer did meanwhile,   *)
(* save the two exceptions LostAtReturn names.                                *)
THEOREM ReturnsAfterTheLoss == Spec => []LostAtReturn
<1>1. Inv => LostAtReturn
  BY DEF Inv, LostAtReturn, CallsInOrder, TreatedIsSettled, Settled
<1> QED BY InvAlways, <1>1, PTL

(* A check_and_shutdown() ends with CancelledError, and connection_lost() is *)
(* refused by the future, only if a call was cancelled at that very protocol. *)
THEOREM CancelsAreExcused == Spec => []CancelledOnlyIfAsked
<1>1. Inv => CancelledOnlyIfAsked
  BY DEF Inv, CancelledOnlyIfAsked, CallsAreAsked, RefusedAsked, AskedFor
<1> QED BY InvAlways, <1>1, PTL
=============================================================================
