--------------------------- MODULE MCUserMemory ----------------------------
(* UserMemory for two tasks, one of them with a second thread, on three    *)
(* CPUs.                                                                   *)
EXTENDS UserMemory, TLC

MCFirst == ("A" :> "c1") @@ ("B" :> "c2")
MCElf == [t \in {"A", "B"} |->
             <<[page |-> 1, memsz |-> 3, filesz |-> 1, flags |-> {"R", "X"}]>>
             \o IF t = "A" THEN <<[page |-> 5, memsz |-> 2, filesz |-> 1, flags |-> {"R", "W"}]>> ELSE <<>>]
(* A length of 9 words is five pages, which a page count takes as one; the *)
(* last call is for a page past the end of the user address space.         *)
MCMmaps == {[addr |-> 0, length |-> 3, prot |-> {"R", "W"}, fixed |-> FALSE],
            [addr |-> 5, length |-> 9, prot |-> {"W"}, fixed |-> FALSE],
            [addr |-> 12, length |-> 1, prot |-> {"R", "W"}, fixed |-> TRUE]}
MCMunmaps == {[page |-> 5, pages |-> 1], [page |-> 3, pages |-> 2], [page |-> 4, pages |-> 1], [page |-> 1, pages |-> 2]}

MCExceptions == {[ec |-> "unknown", dfsc |-> ""], [ec |-> "brk", dfsc |-> ""],
                 [ec |-> "data abort", dfsc |-> "address size"],
                 [ec |-> "data abort", dfsc |-> "alignment"]}

UmSpec == UmInit /\ [][UmNext]_umVars
=============================================================================
