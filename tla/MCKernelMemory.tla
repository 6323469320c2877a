-------------------------- MODULE MCKernelMemory ---------------------------
(* KernelMemory on two small boards: a device region, DDR with a reserved  *)
(* region, and the sections of the kernel image.  The second has five      *)
(* times a power of two of pages, as the i.MX8MP board.                    *)
EXTENDS KernelMemory

Region(addr, pages, ddr) == [addr |-> addr, pages |-> pages, ddr |-> ddr]

MCBoards ==
    {[regions  |-> <<Region(0, 16, FALSE), Region(16, 48, TRUE)>>,
      reserved |-> <<Region(60, 1, FALSE)>>,
      sections |-> <<Region(16, 1, TRUE), Region(17, 1, TRUE)>>],
     [regions  |-> <<Region(0, 16, FALSE), Region(16, 64, TRUE)>>,
      reserved |-> <<Region(21, 2, FALSE), Region(42, 22, FALSE)>>,
      sections |-> <<Region(18, 1, TRUE), Region(19, 1, TRUE)>>]}

MCNodes == [fva |-> 3, rva |-> 26, mdt |-> 2]

(* The CPU that fills the reserve does not stop: it goes on to the next    *)
(* slot, and leaves the loop when all are full.                            *)
FillAdvances == /\ km_phase = "fill" /\ FullSlots(km) # 1 .. KmReserve /\ ~Stopped(km)
                /\ km_slot' = (km_slot % KmReserve) + 1
FillEnds == /\ km_phase = "fill" /\ FullSlots(km) = 1 .. KmReserve /\ ~Stopped(km)
            /\ km_phase' = "up"

KmFillSpec == /\ KmInit /\ PgInit
              /\ [][KmNext /\ UNCHANGED pgVars]_<<kmVars, pgVars>>
              /\ WF_km_slot(FillAdvances) /\ WF_km_phase(FillEnds)
=============================================================================
