-------------------------------- MODULE MCPacket --------------------------------
(* Values for model-checking Uac2PacketSize. *)
EXTENDS Uac2PacketSize

(* S23udc's rate of usb1, a multiple of the packet rate that just fills a
   full-speed packet in one format, one sample a second more than that, and one
   whose max_size_bw is 65536. *)
MCSrate == {22050, 255000, 255001, 16383000}
================================================================================
