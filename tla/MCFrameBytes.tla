---------------------------- MODULE MCFrameBytes ----------------------------
(***************************************************************************)
(* FrameBytes with pieces of up to 8 bytes out of a package of 14, a       *)
(* module that may announce usable, unusable, negative and byte-swapped    *)
(* lengths, and one that asks for pieces at every edge of what was agreed. *)
(***************************************************************************)
EXTENDS FrameBytes

MCFile == <<213, 165, 0, 255, 12, 0, 0, 128, 1, 2, 254, 7, 0, 9>>

Lengths ==
  {<<19, 0, 0, 0>>, <<20, 0, 0, 0>>, <<22, 0, 0, 0>>, <<24, 0, 0, 0>>, <<25, 0, 0, 0>>,
   <<24, 1, 0, 0>>, <<24, 0, 0, 128>>, <<0, 0, 0, 24>>, <<24>>}

Asks ==
  {LittleEndian(at) \o LittleEndian(size) : at \in {3}, size \in {1, 4, 5, 8, 9}}
  \cup {<<0, 0, 0, 0, 0, 0, 0, 0>>, <<4, 0, 0, 0, 1, 0, 0, 128>>, <<4, 0, 0, 0, 0, 1, 0, 0>>,
        <<4, 0, 0, 128, 1, 0, 0, 0>>, <<13, 0, 0, 0, 2, 0, 0, 0>>}

MCAnswers(cmd) ==
  {<<1, <<1>>>>} \cup
  {0} \X (CASE cmd = "GET_DEVICE_MAX_FRAME_LEN" -> Lengths
            [] cmd = "SEND_FIRMWARE" -> Asks
            [] cmd = "GET_DEVICE_INFO" -> {<<77, 55, 48>>, <<77>>}
            [] OTHER -> {<<0>>, <<1>>, <<1, 0>>})
=============================================================================
