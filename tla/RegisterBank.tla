----------------------------- MODULE RegisterBank -----------------------------
(***************************************************************************)
(* What the sample server promises its master about data: an array of      *)
(* coils (0 or 1) and an array of registers, all 0 at first.  A request    *)
(* reads or writes a run of cells, which wraps at the end of the address   *)
(* space; the answer to a read is the cells, to a write the place and the  *)
(* number of cells written.  No maps with missing keys, no bytes.          *)
(***************************************************************************)
EXTENDS Naturals, Sequences

CONSTANTS Space,     \* number of addresses
          Requests   \* [op, at, n, to, values]: the requests there are

VARIABLES coils, regs, answer

vars == <<coils, regs, answer>>

Cells(array, at, n) == [k \in 1 .. n |-> array[(at + k - 1) % Space]]

Store(array, at, values) ==
  [x \in 0 .. Space - 1 |->
     LET k == ((x + Space - at) % Space) + 1
     IN  IF k <= Len(values) THEN values[k] ELSE array[x]]

Init ==
  /\ coils = [x \in 0 .. Space - 1 |-> 0]
  /\ regs = [x \in 0 .. Space - 1 |-> 0]
  /\ answer = << >>

ReadCoils(r) ==
  /\ r.op = "read coils"
  /\ answer' = Cells(coils, r.at, r.n)
  /\ UNCHANGED <<coils, regs>>

ReadRegs(r) ==
  /\ r.op = "read regs"
  /\ answer' = Cells(regs, r.at, r.n)
  /\ UNCHANGED <<coils, regs>>

WriteCoils(r) ==
  /\ r.op = "write coils"
  /\ coils' = Store(coils, r.to, r.values)
  /\ answer' = <<r.to, Len(r.values)>>
  /\ UNCHANGED regs

WriteRegs(r) ==
  /\ r.op = "write regs"
  /\ regs' = Store(regs, r.to, r.values)
  /\ answer' = <<r.to, Len(r.values)>>
  /\ UNCHANGED coils

(* The write comes first: the answer shows it.                             *)
WriteAndReadRegs(r) ==
  /\ r.op = "write and read regs"
  /\ regs' = Store(regs, r.to, r.values)
  /\ answer' = Cells(regs', r.at, r.n)
  /\ UNCHANGED coils

Next == \E r \in Requests :
          ReadCoils(r) \/ ReadRegs(r) \/ WriteCoils(r) \/ WriteRegs(r)
            \/ WriteAndReadRegs(r)

Spec == Init /\ [][Next]_vars
===============================================================================
