---------------------------- MODULE MCBusSession ----------------------------
(* Two LTC3880s that share a rail, the second with another rail on its      *)
(* other page; an LTC3887 whose pages are one rail, and whose PEC cannot be *)
(* switched; an LTC2972, a manager.  A rail address lies below the chips',  *)
(* the others above.                                                       *)
EXTENDS BusSession

ChipsMC == {32, 33, 34, 48}
IdOfMC == (32 :> \h4020) @@ (33 :> \h4020) @@ (34 :> \h4700) @@ (48 :> \h0310)
RailOfMC == (32 :> (0 :> 96 @@ 1 :> 128)) @@ (33 :> (0 :> 97 @@ 1 :> 96))
            @@ (34 :> (0 :> 20 @@ 1 :> 20)) @@ (48 :> (0 :> 128 @@ 1 :> 128))

ASSUME MCPagesAssumption == PagesAsCounted
=============================================================================
