------------------------------ MODULE PageTables ------------------------------
(***************************************************************************)
(* How all_table_size() numbers the tables of a 4-level page table.  A     *)
(* table has Entries entries, 512 in the program: the top Entries^4 pages' *)
(* numbers are four digits to that base, and the digits above those of a   *)
(* level say which of its tables a page uses.                              *)
(***************************************************************************)
EXTENDS Integers

CONSTANT Entries

ASSUME EntriesAssumption == Entries \in Nat \ {0}

\* Slip: the top digit is not cut out of the digits above it.
ptIndex_NoMask(v) == v \div (Entries * Entries * Entries)

\* The digits of a page number, named as the code names them.
pdptIndex(v) == (v \div Entries) % Entries
pdIndex(v)   == (v \div (Entries * Entries)) % Entries
ptIndex(v)   == (v \div (Entries * Entries * Entries)) % Entries

\* Slip: the middle digit of level 4 is shifted like the top one.
TableIndex_OneShift(level, v) ==
  CASE level = 2 -> ptIndex(v)
    [] level = 3 -> Entries * ptIndex(v) + pdIndex(v)
    [] OTHER     -> Entries * ptIndex(v) + Entries * pdIndex(v) + pdptIndex(v)

\* The array index of v's table on each level below the first.
TableIndex(level, v) ==
  CASE level = 2 -> ptIndex(v)
    [] level = 3 -> Entries * ptIndex(v) + pdIndex(v)
    [] OTHER     -> Entries * ptIndex(v) + Entries * Entries * pdIndex(v) + pdptIndex(v)

\* The entries of a level's array.
Slots(level) ==
  CASE level = 2 -> Entries
    [] level = 3 -> Entries * Entries
    [] OTHER     -> Entries * Entries * Entries

-------------------------------------------------------------------------------
(* Reference notion, not code. *)

\* A table of a level maps that many pages: what it stands for is the place of
\* its pages in the address space, in units of that size.
Span(level) ==
  CASE level = 2 -> Entries * Entries * Entries
    [] level = 3 -> Entries * Entries
    [] OTHER     -> Entries

TableOf(level, v) == (v % (Entries * Span(2))) \div Span(level)
===============================================================================
