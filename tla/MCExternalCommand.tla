------------------------- MODULE MCExternalCommand --------------------------
(***************************************************************************)
(* Calls of every driver, with reports up to one block over the limit: a   *)
(* tool may quit after any block of it.  The commands of Oha and Iperf3    *)
(* are a part of those of EggReplay and EggsecLoad.                        *)
(***************************************************************************)
EXTENDS ExternalCommand

Drivers ==
  {H2load, EggReplay, EggsecLoad, EggsecWaf, EggProbe, PreflightEggprobe, PreflightReplay}

SomeCalls == Drivers \X {Limit + 1}
=============================================================================
