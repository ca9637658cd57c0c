------------------------------ MODULE MCEngine ------------------------------
(* Engine as TLC runs it: the configurations give the number of clients,   *)
(* the limit on connections and the number of events.                      *)
EXTENDS Engine

\* Every client has connected, negotiated and started its session.  Runs that
\* need three sessions start here, a state that Spec reaches.
LoggedInInit ==
  /\ link = [c \in Client |-> "up"]
  /\ wire = [c \in Client |-> "untyped"]
  /\ clients = Client
  /\ active = Client
  /\ recvbuf = {}
  /\ sendbuf = {}
  /\ connect = [c \in Client |-> "stopped"]
  /\ proc = [c \in Client |-> "running"]
  /\ emitted = 0
  /\ terminals = Client
  /\ timeout = [c \in Client |-> "ini"]
  /\ up = [c \in Client |-> << >>]
  /\ down = [c \in Client |-> << >>]
  /\ phase = "select"
  /\ ready = NothingReady
  /\ terms = {}
  /\ todo = {}

LoggedInSpec == LoggedInInit /\ [][Next]_vars
=============================================================================
