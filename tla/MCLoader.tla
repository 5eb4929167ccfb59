------------------------------- MODULE MCLoader -------------------------------
(* Files of up to three segments for a flash of 4 bytes and a RAM of 3 at data *)
(* addresses from 8: text and data of every small size, in every order, with   *)
(* and without load addresses, reaching past the last byte, overlapping, of    *)
(* the wrong kind, or so large that 32-bit sums would wrap.                    *)
EXTENDS Loader

Segment(load, w, inFile, v, p, f, n) ==
  [load |-> load, writable |-> w, inFile |-> inFile, vaddr |-> v, paddr |-> p,
   filesz |-> f, memsz |-> n]

Texts == {Segment(TRUE, FALSE, TRUE, v, v, f, f) : v \in {0, 1, 2, 3}, f \in {1, 2}}
Datas ==
  {Segment(TRUE, TRUE, TRUE, v, p, f[1], f[2]) :
     v \in {8, 9, 10}, p \in {8, 0, 2}, f \in {<<0, 1>>, <<1, 1>>, <<1, 2>>}}
Odd ==
  {Segment(FALSE, TRUE, TRUE, 0, 0, 1, 1), Segment(TRUE, FALSE, TRUE, 8, 8, 1, 1),
   Segment(TRUE, TRUE, TRUE, 2, 2, 1, 1), Segment(TRUE, TRUE, TRUE, 12, 8, 0, 1),
   Segment(TRUE, TRUE, FALSE, 8, 8, 1, 1), Segment(TRUE, TRUE, TRUE, 8, 8, 2, 1),
   Segment(TRUE, TRUE, TRUE, 10, 8, 1, 15)}
All == Texts \cup Datas \cup Odd

File(header, entry, s) == [header |-> header, entry |-> entry, segments |-> s]

Files ==
  {File(h, e, s) : h \in BOOLEAN, e \in {1, 4}, s \in {<<>>} \cup [1..1 -> All]}
    \cup {File(TRUE, e, s) : e \in {1, 4}, s \in [1..2 -> All]}
    \cup {File(TRUE, 1, s) : s \in [1..3 -> Texts \cup Datas]}
=============================================================================
