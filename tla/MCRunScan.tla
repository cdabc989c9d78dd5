----------------------------- MODULE MCRunScan -----------------------------
(* An instance of RunScan: names of one to three words in blocks of sixteen, two of      *)
(* which read file-2.jpg and file-3.jpg, and files with every pattern of missing blocks. *)
EXTENDS RunScan

MCNameWords == [s \in Names |-> CASE s = "a" -> 1 [] s = "b" -> 2 [] OTHER -> 3]
MCNumbered == [s \in {"file-2", "file-3"} |-> IF s = "file-2" THEN 2 ELSE 3]

\* Blocks 11 to 17 where the file has them, 21 to 24 for the indirect blocks it needs;
\* one of the first, the single or the double indirect ones may look like a JPEG.
MCNumber(has, j) == IF j \in has THEN 10 + j ELSE 0
MCIndirect(has, js, b) == IF has \cap js # {} THEN b ELSE 0
MCLayouts ==
    {[i_block |-> <<MCNumber(has, 1), MCIndirect(has, {2, 3}, 21), MCIndirect(has, 4 .. 7, 22)>>,
      ptrs |-> [b \in 21 .. 24 |->
                  CASE b = 21 -> <<MCNumber(has, 2), MCNumber(has, 3)>>
                    [] b = 22 -> <<MCIndirect(has, {4, 5}, 23), MCIndirect(has, {6, 7}, 24)>>
                    [] b = 23 -> <<MCNumber(has, 4), MCNumber(has, 5)>>
                    [] b = 24 -> <<MCNumber(has, 6), MCNumber(has, 7)>>],
      size |-> size, jpg |-> jpg] :
        has \in SUBSET (1 .. NBLOCKS), size \in {0, 1, 2, 3, 6, 7, 8, 14},
        jpg \in {{}, {11}, {13}, {17}, {12, 16}}}
=============================================================================
