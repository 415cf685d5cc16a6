------------------------------- MODULE MCUsbPort -------------------------------
(***************************************************************************)
(* Small instances of UsbPort: gadgets with CDC-Data first, second or not  *)
(* at all, and one without bulk endpoints; a tick stands for 10 ms.        *)
(***************************************************************************)
EXTENDS UsbPort, TLC

Ctl == [bulk |-> FALSE, data |-> FALSE]
Cdc == [bulk |-> TRUE, data |-> TRUE]
Diag == [bulk |-> TRUE, data |-> FALSE]

MCDevices ==
  {0 :> Ctl @@ 1 :> Cdc, 0 :> Ctl @@ 1 :> Diag @@ 2 :> Cdc, 0 :> Diag, 0 :> Ctl}

OneDevice == {0 :> Ctl @@ 1 :> Cdc}

MCLatencies == {0, 2, 4, 5, 6, 7, 11, 12, 15, 19, 20, 22, 25, 29, 41, 59}
=============================================================================
