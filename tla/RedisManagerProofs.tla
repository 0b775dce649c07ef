--------------------------- MODULE RedisManagerProofs ---------------------------
(* One connection to an address, for any number of addresses and clients.   *)
EXTENDS RedisManager, TLAPS

\* A client is made for a key only when none is kept for it, and what is kept
\* stays: every client ever handed out is the one kept for its key.
ManagerInv ==
  /\ TypeOK
  /\ \A c \in Clients : clients[key[c]] = c
  /\ \A c \in Clients : connected[c] \/ c \in closed

LEMMA InitManagerInv == Init => ManagerInv
<1> SUFFICES ASSUME Init PROVE ManagerInv
  OBVIOUS
<1>1. DOMAIN key = {} /\ Len(key) = 0 /\ Len(connected) = 0
  BY DEF Init
<1>2. key \in Seq(Keys) /\ connected \in Seq(BOOLEAN)
  BY DEF Init
<1>3. clients \in [Keys -> 0..MaxClients] /\ returned \in 0..MaxClients
  BY MaxClientsAssumption DEF Init
<1> QED BY <1>1, <1>2, <1>3 DEF Init, ManagerInv, TypeOK, Clients

LEMMA NextManagerInv == ManagerInv /\ [Next]_vars => ManagerInv'
<1> SUFFICES ASSUME ManagerInv, [Next]_vars PROVE ManagerInv'
  OBVIOUS
<1> USE MaxClientsAssumption DEF ManagerInv, TypeOK, Clients
<1>1. ASSUME NEW k \in Keys, ConnectKept(k) PROVE ManagerInv'
  BY <1>1 DEF ConnectKept, Return
<1>2. ASSUME NEW k \in Keys, ConnectNew(k) PROVE ManagerInv'
  <2>1. /\ key' = Append(key, k) /\ connected' = Append(connected, TRUE)
        /\ clients' = [clients EXCEPT ![k] = Len(key) + 1]
        /\ clients[k] = 0 /\ Len(key) + 1 \in 1..MaxClients
    BY <1>2 DEF ConnectNew, Made
  <2>2. DOMAIN key = 1..Len(key) /\ DOMAIN key' = 1..(Len(key) + 1)
    BY <2>1
  <2>3. /\ key'[Len(key) + 1] = k
        /\ \A c \in 1..Len(key) : key'[c] = key[c] /\ key[c] # k
    BY <2>1, <2>2
  <2>4. TypeOK'
    <3>1. clients' \in [Keys -> 0..MaxClients]
      BY <2>1
    <3>2. key' \in Seq(Keys) /\ connected' \in Seq(BOOLEAN) /\ Len(connected') = Len(key')
      BY <2>1
    <3>3. /\ refused' \subseteq Keys /\ returned' \in 0..MaxClients /\ fresh' \in BOOLEAN
          /\ closed' \subseteq DOMAIN key'
      BY <1>2, <2>1, <2>2 DEF ConnectNew, Return
    <3>4. ASSUME NEW other \in Keys, clients'[other] # 0
          PROVE clients'[other] \in DOMAIN key' /\ key'[clients'[other]] = other
      <4>1. CASE other = k
        BY <4>1, <2>1, <2>2, <2>3
      <4>2. CASE other # k
        BY <4>2, <3>4, <2>1, <2>2, <2>3
      <4> QED BY <4>1, <4>2
    <3> QED BY <3>1, <3>2, <3>3, <3>4
  <2>5. ASSUME NEW c \in DOMAIN key' PROVE clients'[key'[c]] = c
    <3>1. CASE c = Len(key) + 1
      BY <3>1, <2>1, <2>3
    <3>2. CASE c \in 1..Len(key)
      BY <3>2, <2>1, <2>2, <2>3
    <3> QED BY <3>1, <3>2, <2>2
  <2>6. ASSUME NEW c \in DOMAIN key' PROVE connected'[c] \/ c \in closed'
    <3>1. CASE c = Len(key) + 1
      BY <3>1, <2>1
    <3>2. CASE c \in 1..Len(key)
      BY <3>2, <1>2, <2>1, <2>2 DEF ConnectNew, Return
    <3> QED BY <3>1, <3>2, <2>2
  <2> QED BY <2>4, <2>5, <2>6
<1>3. ASSUME NEW k \in Keys, ConnectFails(k) PROVE ManagerInv'
  BY <1>3 DEF ConnectFails, Return
<1>4. ASSUME NEW k \in Keys, ServerChanges(k) PROVE ManagerInv'
  BY <1>4 DEF ServerChanges
<1>5. ASSUME NEW c \in Clients, Close(c) PROVE ManagerInv'
  <2>1. /\ connected' \in Seq(BOOLEAN) /\ Len(connected') = Len(key)
        /\ connected' = [connected EXCEPT ![c] = FALSE] /\ DOMAIN key = DOMAIN connected
    BY <1>5 DEF Close
  <2>2. UNCHANGED <<clients, key, refused, returned>> /\ fresh' = FALSE
    BY <1>5 DEF Close
  <2>3. closed' \subseteq DOMAIN key /\ closed \subseteq closed' /\ c \in closed'
    BY <1>5 DEF Close
  <2>4. TypeOK'
    BY <2>1, <2>2, <2>3
  <2>5. \A d \in DOMAIN key : connected'[d] \/ d \in closed'
    BY <2>1, <2>3
  <2> QED BY <2>2, <2>4, <2>5
<1>6. ASSUME NEW c \in Clients, Open(c) PROVE ManagerInv'
  <2>1. /\ connected' \in Seq(BOOLEAN) /\ Len(connected') = Len(key)
        /\ connected' = [connected EXCEPT ![c] = TRUE] /\ DOMAIN key = DOMAIN connected
    BY <1>6 DEF Open
  <2>2. UNCHANGED <<clients, key, refused, returned>> /\ fresh' = FALSE
    BY <1>6 DEF Open
  <2>3. closed' \subseteq DOMAIN key /\ closed \subseteq closed'
    BY <1>6 DEF Open
  <2>4. TypeOK'
    BY <2>1, <2>2, <2>3
  <2>5. \A d \in DOMAIN key : connected'[d] \/ d \in closed'
    BY <2>1, <2>3
  <2> QED BY <2>2, <2>4, <2>5
<1>7. CASE UNCHANGED vars
  BY <1>7 DEF vars
<1> QED BY <1>1, <1>2, <1>3, <1>4, <1>5, <1>6, <1>7 DEF Next

\* A manager's own bookkeeping is well-formed (RedisManager.php:23-37).
THEOREM ManagerTypeCorrect == Spec => []TypeOK
<1>1. ManagerInv => TypeOK
  BY DEF ManagerInv
<1> QED BY InitManagerInv, NextManagerInv, <1>1, PTL DEF Spec

\* "A connection will never be opened twice" (RedisManager.php:20).
THEOREM NeverOpenedTwiceCorrect == Spec => []NeverOpenedTwice
<1>1. ManagerInv => NeverOpenedTwice
  BY DEF ManagerInv, NeverOpenedTwice
<1> QED BY InitManagerInv, NextManagerInv, <1>1, PTL DEF Spec

\* A refused connect() leaves nothing behind (RedisManager.php:29-33).
THEOREM ClosedByUserCorrect == Spec => []ClosedByUser
<1>1. ManagerInv => ClosedByUser
  BY DEF ManagerInv, TypeOK, ClosedByUser
<1> QED BY InitManagerInv, NextManagerInv, <1>1, PTL DEF Spec
===============================================================================
