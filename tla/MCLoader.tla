------------------------------ MODULE MCLoader ------------------------------
(***************************************************************************)
(* Bytes of a three-bit digit and a flag.  The programs are all short ones *)
(* over two symbols, and longer ones over all sixteen, in which the marker *)
(* itself occurs and strings repeat at short and long distances.           *)
(***************************************************************************)
EXTENDS Loader

Words(n) == [1 .. n -> {0, 1}]

\* A slope with steps: its strings repeat after 16 or sooner.
Slope(n, up, step) == [i \in 1 .. n |-> (i * up + (i \div step)) % 16]

\* A slope, and it again after a gap.
Echo(n, gap, up) ==
  [i \in 1 .. (2 * n + gap) |-> IF i <= n THEN (i * up) % 16
                                ELSE IF i <= n + gap THEN 15 - (i % 3)
                                ELSE ((i - n - gap) * up) % 16]

\* The program has room for the boot configuration.
MCImages ==
  UNION {Words(n) : n \in 7 .. 10}
    \cup {Slope(n, up, step) : n \in 36 .. 40, up \in 0 .. 3, step \in 2 .. 9}
    \cup {Slope(n, 1, 50) : n \in 32 .. 34}
    \cup {[i \in 1 .. 40 |-> IF i <= 20 THEN Echo(n, 20 - 2 * n, up)[i]
                             ELSE Echo(m, 20 - 2 * m, up)[i - 20]] :
            n, m \in 4 .. 10, up \in 1 .. 3}
    \cup {<<i>> \o w : i \in {0, 1, 2}, w \in {Echo(8, 0, 1), Echo(9, 3, 1)}}
=============================================================================
