-------------------------------- MODULE MC_XIO --------------------------------
(* Model-checking instances of XIO: main and one forked child, two files *)
(* opened or accepted through xio, standard output, and a socket made    *)
(* with socket(2), which xio does not see until it is connected.        *)
EXTENDS XIO

CONSTANTS m, c, f, g, so, sk

MCProcs == {m, c}
MCFds == {f, g, so, sk}
MCStdFds == {so, sk}

Op(fd) == [op |-> "open", fd |-> fd]
Cn(fd) == [op |-> "connect", fd |-> fd]
Ac(fd) == [op |-> "accept", fd |-> fd]
Wr(fd) == [op |-> "write", fd |-> fd]
Cl(fd) == [op |-> "close", fd |-> fd]
Rd(fd) == [op |-> "read", fd |-> fd]
Sk(fd) == [op |-> "lseek", fd |-> fd]
St == [op |-> "touch"]
En == [op |-> "end"]
Sp(t) == [op |-> "spawn", child |-> t]

(* main opens f, accepts g, buffers two writes to f in one section and   *)
(* forks c; c inherits the list, connects the socket, writes, reads and   *)
(* closes; both seek.                                                     *)
ProgAll ==
  [q \in MCProcs |->
     CASE q = m -> <<Op(f), Ac(g), Wr(f), Wr(f), Sp(c), St, Wr(g), Cl(g), En,
                     Wr(so), Sk(f), Sk(so)>>
       [] q = c -> <<Cn(sk), Wr(f), St, Wr(sk), Cl(f), Rd(f), Cl(g), Sk(g)>>]

(* main opens f and forks c, whose thread function writes to f and       *)
(* stores nothing to tracked memory.                                      *)
ProgLost ==
  [q \in MCProcs |->
     CASE q = m -> <<Op(f), Sp(c), St>>
       [] q = c -> <<Wr(f)>>]

(* main opens f and writes to it in a section that stores nothing, then  *)
(* forks c; both then store and end.                                      *)
ProgForkDup ==
  [q \in MCProcs |->
     CASE q = m -> <<Op(f), Wr(f), Sp(c), St>>
       [] q = c -> <<St>>]

(* main writes twice to f in one section that commits, then commits     *)
(* another section.                                                       *)
ProgTwoWrites ==
  [q \in MCProcs |->
     CASE q = m -> <<Op(f), Wr(f), Wr(f), St, En, St, En>>
       [] q = c -> <<>>]

(* main opens f, commits a section, and seeks in f.                       *)
ProgSeek ==
  [q \in MCProcs |->
     CASE q = m -> <<Op(f), St, En, Sk(f)>>
       [] q = c -> <<>>]
==============================================================================
