----------------------------- MODULE RedisManager -----------------------------
(* RedisManager::connect (library/RedisManager.php), which keeps one client *)
(* per address and port, and what several users of one manager do to the    *)
(* clients it hands out.                                                    *)
EXTENDS Integers, Sequences, FiniteSets

CONSTANTS
  Keys,       \* "address:port" strings asked for
  MaxClients  \* bound on the clients made

ASSUME MaxClientsAssumption == MaxClients \in Nat

VARIABLES
  clients,   \* RedisManager::$clients: the client kept for a key, 0 if none
  key,       \* the key each client was made for
  connected, \* Connection::$connected of each client
  refused,   \* keys whose redis does not accept connections at present
  returned,  \* the client the last connect() returned, 0 if it threw
  fresh,     \* TRUE iff nothing has been done to a client since
  closed     \* history: the clients a user has closed

vars == <<clients, key, connected, refused, returned, fresh, closed>>

Clients == DOMAIN key

TypeOK ==
  /\ clients \in [Keys -> 0..MaxClients]
  /\ key \in Seq(Keys) /\ connected \in Seq(BOOLEAN) /\ Len(connected) = Len(key)
  /\ refused \subseteq Keys /\ returned \in 0..MaxClients /\ fresh \in BOOLEAN
  /\ closed \subseteq Clients
  /\ \A k \in Keys : clients[k] # 0 => clients[k] \in Clients /\ key[clients[k]] = k

Init ==
  /\ clients = [k \in Keys |-> 0] /\ key = <<>> /\ connected = <<>>
  /\ refused = {} /\ returned = 0 /\ fresh = FALSE /\ closed = {}

Return(c) == returned' = c /\ fresh' = TRUE /\ UNCHANGED <<refused, closed>>

\* The client kept for the key is returned without another look at it.
ConnectKept(k) ==
  /\ clients[k] # 0
  /\ Return(clients[k]) /\ UNCHANGED <<clients, key, connected>>

Made(k, open) ==
  /\ clients[k] = 0 /\ Len(key) < MaxClients
  /\ key' = Append(key, k) /\ connected' = Append(connected, open)

\* Mutant: the new client is not kept.
ConnectNew_NotKept(k) ==
  k \notin refused /\ Made(k, TRUE) /\ Return(Len(key) + 1) /\ UNCHANGED clients

\* Mutant: the port is not part of the key, so all keys are one.
ConnectNew_AnyPort(k) ==
  /\ k \notin refused /\ Made(k, TRUE) /\ Return(Len(key) + 1)
  /\ clients' = [other \in Keys |-> Len(key) + 1]

ConnectNew(k) ==
  /\ k \notin refused /\ Made(k, TRUE) /\ Return(Len(key) + 1)
  /\ clients' = [clients EXCEPT ![k] = Len(key) + 1]

\* Mutant: the client that could not connect is kept.
ConnectFails_Kept(k) ==
  /\ k \in refused /\ Made(k, FALSE) /\ Return(0)
  /\ clients' = [clients EXCEPT ![k] = Len(key) + 1]

\* The client made is unset again and CouldNotConnectException is thrown.
ConnectFails(k) ==
  /\ clients[k] = 0 /\ k \in refused
  /\ Return(0) /\ UNCHANGED <<clients, key, connected>>

\* A user of the client closes it, by close() or QUIT, or opens it again.
Close(c) ==
  /\ connected[c]
  /\ connected' = [connected EXCEPT ![c] = FALSE] /\ closed' = closed \cup {c}
  /\ fresh' = FALSE /\ UNCHANGED <<clients, key, refused, returned>>

Open(c) ==
  /\ ~connected[c] /\ key[c] \notin refused
  /\ connected' = [connected EXCEPT ![c] = TRUE]
  /\ fresh' = FALSE /\ UNCHANGED <<clients, key, refused, returned, closed>>

\* A redis stops or starts to accept connections.
ServerChanges(k) ==
  /\ refused' = IF k \in refused THEN refused \ {k} ELSE refused \cup {k}
  /\ UNCHANGED <<clients, key, connected, returned, fresh, closed>>

Next ==
  \/ \E k \in Keys : ConnectKept(k) \/ ConnectNew(k) \/ ConnectFails(k) \/ ServerChanges(k)
  \/ \E c \in Clients : Close(c) \/ Open(c)

Spec == Init /\ [][Next]_vars

-----------------------------------------------------------------------------
(* Properties.                                                             *)

\* "A connection will never be opened twice" (RedisManager.php:20): whatever
\* its users close, open again or fail to open, one manager holds at most one
\* open connection to an address and port.
NeverOpenedTwice ==
  \A c, d \in Clients : key[c] = key[d] /\ connected[c] /\ connected[d] => c = d

\* A client that is kept but not open was closed by a user: a refused connect()
\* leaves nothing behind, so the next one tries again (RedisManager.php:29-33).
ClosedByUser == \A k \in Keys : clients[k] # 0 => connected[clients[k]] \/ clients[k] \in closed

\* "instead the already open connection will be returned" (RedisManager.php:20):
\* the client connect() has just returned is open.
ReturnedIsOpen == fresh /\ returned # 0 => connected[returned]
===============================================================================
