---------------------------- MODULE FifoSort ----------------------------
(***************************************************************************)
(* sortProcessFIFO of proc.c, which allocproc calls under the FRR policy:  *)
(* it exchanges struct procs between the RUNNABLE slots of the table.      *)
(***************************************************************************)
EXTENDS Integers

\* minIndex: the last RUNNABLE slot after i that is older than slot i.  (The
\* loop compares with slot i, not with the oldest one found so far.)
LastOlder(n, st, age, i) ==
  LET older == {j \in (i + 1) .. n : st[j] = "RUNNABLE" /\ age[j] < age[i]}
  IN IF st[i] # "RUNNABLE" \/ older = {} THEN i
     ELSE CHOOSE j \in older : \A k \in older : k <= j

\* For a table of n slots with states st and creation times ct: the function
\* that maps a slot to the slot its contents come from.
sortProcessFIFO(n, st, ct) ==
  LET from[i \in 0 .. n] ==
        IF i = 0 THEN [q \in 1 .. n |-> q]
        ELSE LET f == from[i - 1]
                 m == LastOlder(n, st, [q \in 1 .. n |-> ct[f[q]]], i)
             IN [f EXCEPT ![i] = f[m], ![m] = f[i]]
  IN from[n]

=============================================================================
