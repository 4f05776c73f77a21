---------------------------- MODULE MCChatServer ----------------------------
(***************************************************************************)
(* The chat server with model values for clients and rooms.                *)
(***************************************************************************)
EXTENDS ChatServer, TLC

CONSTANTS c1, c2, c3, r1, r2

Symmetric == Permutations(Clients) \cup Permutations(Rooms)

\* A start from the state in which the senders have connected and are registered.
Connected(c) == [NewClient EXCEPT !.conn = "open", !.reader = "read", !.writer = "run",
                                  !.pinger = "check"]

ConnectedInit ==
  /\ cl = [c \in Clients |-> IF c \in Senders THEN Connected(c) ELSE NewClient]
  /\ ch = NewChannels
  /\ topic = << >> /\ readPos = 0
  /\ clients = [c \in Clients |-> IF c \in Senders THEN "live" ELSE "abs"]
  /\ rooms = [r \in Rooms |-> NoRoom]
  /\ worker = [o \in Msgs |-> Idle]
  /\ nreq = 0 /\ crashed = FALSE
  /\ sent = [c \in Clients |-> << >>]
  /\ joined = [r \in Rooms |-> {}]

ConnectedSpec == ConnectedInit /\ [][Next]_vars /\ Fairness
=============================================================================
