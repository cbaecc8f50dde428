----------------------------- MODULE MCGuestMemory -----------------------------
(***************************************************************************)
(* Requests on each side of every comparison of Reserve: non-positive, the *)
(* defaults and one more, sizes the initial 128 MiB holds, sizes that grow  *)
(* it, sizes that together fill the 256 MiB to the last byte or exceed it   *)
(* by one, and sizes at and above the number of uint32 values.              *)
(***************************************************************************)
EXTENDS GuestMemory

MCWord == 536870912                    \* 2^29 stands for 2^32

MiB == 1048576
\* dst bytes that leave no room for more than the default src
FullDst == maxMemory - hostSlotRegionBase - 80 - defaultSrcCap

MCRequests ==
  { -1, 0, 64 * 1024 + 1, 128 * 1024 + 5, 2 * MiB + 3, 32 * MiB, 95 * MiB,
    96 * MiB, 130 * MiB, FullDst, FullDst + 1, MCWord - 1, MCWord }

=============================================================================
