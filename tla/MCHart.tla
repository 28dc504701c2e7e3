-------------------------------- MODULE MCHart --------------------------------
(* Instances of Hart for TLC: every program over a menu of instructions. *)
EXTENDS HartInv

\* Indirect targets are given relative to the instruction, like the others.
I(op, imm, to) == [op |-> op, imm |-> imm, to |-> to]

Plain == {I("op", 0, {}), I("branch", 2, {}), I("branch", -1, {}),
          I("call", 2, {}), I("call", -1, {}), I("icall", 0, {0, 2}),
          I("ret", 0, {2}), I("ecall", 0, {})}

\* The PCs of these programs (Hart's own Pcs is an instance that depends on
\* Programs: named here, it would close a cycle in TLC's coverage report).
At == 0 .. (PcSpace - 1)

Placed(menu) ==
  {[p \in At |-> [m[p] EXCEPT !.to = {(p + d) % PcSpace : d \in @}]] :
     m \in [At -> menu]}

\* Every program of PcSpace instructions.
AllPrograms == Placed(Plain)

\* Programs that count instructions on every path, with jumps, calls out of the
\* executable segments and words that decode to nothing out there.
CountPrograms ==
  {c \in Placed({I("op", 0, {}), I("branch", 2, {}), I("jump", -1, {}),
                 I("call", 2, {}), I("ret", 0, {3}), I("ijump", 0, {2, 3}),
                 I("ecall", 0, {}), I("unknown", 0, {})}) :
     /\ c[0].op \in {"call", "op", "branch"}
     /\ \A p \in ExecPcs : c[p].op # "unknown"
     /\ c[PcSpace - 1].op # "branch"}

\* Programs with everything, on which only the end of the run is checked.
WildPrograms ==
  {c \in Placed({I("mem", 0, {}), I("csrw", 0, {}), I("branch", -1, {}),
                 I("icall", 0, {0, 2}), I("call", 2, {}), I("ret", 0, {2}),
                 I("ecall", 0, {}), I("unknown", 0, {})}) :
     \E p \in At : c[p].op = "ecall"}

\* Two instructions that share a slot of a two-entry cache.
AliasPrograms ==
  {[p \in At |-> CASE p = 0 -> I("op", 0, {})  [] p = 1 -> I("jump", 2, {})
                    [] p = 2 -> I("mem", 0, {}) [] OTHER -> I("jump", -1, {})]}

\* A function that turns paging on and then reads memory.
PagingPrograms ==
  {[p \in At |-> CASE p = 0 -> I("csrw", 0, {}) [] p = 1 -> I("mem", 0, {})
                    [] OTHER -> I("ecall", 0, {})]}
===============================================================================
