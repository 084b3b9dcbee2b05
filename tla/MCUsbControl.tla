---------------------------- MODULE MCUsbControl ----------------------------
(* Instances of UsbControl.  Buffers other than buffer 0 are alike. *)
EXTENDS UsbControl, TLC

CONSTANTS b0, b1, b2, b3

FourBuffers == {b0, b1, b2, b3}
MCSymmetry  == Permutations(Buffers \ {b0})

=============================================================================
