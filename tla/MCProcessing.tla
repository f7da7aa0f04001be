---------------------------- MODULE MCProcessing ----------------------------
(***************************************************************************)
(* Small instances of Processing.  Lanes is 2 so that a row of three bytes *)
(* has a vector and a tail; the padded image has rows of one byte, two     *)
(* apart.  Brightness 65500 is where the vector sum passes 32767.  A resize*)
(* is to less than the image, so that a second run stays inside its bytes. *)
(***************************************************************************)
EXTENDS Processing

Op(name) == [op |-> name, val |-> NULL]
Brighter(v) == [op |-> "bright", val |-> v]
Resized(n) == [op |-> "resize", val |-> n]

MCPipes == {<<Op("bright")>>, <<Op("gray"), Brighter(60)>>, <<Op("resize")>>,
            <<Brighter(65500), Op("crop"), Op("gray")>>,
            <<Op("gray"), Brighter(60), Resized(1)>>,
            <<Op("gray"), Op("resize")>>}

MCImages == {[w |-> 3, h |-> 1, stride |-> 3, bytes |-> <<10, 150, 250>>],
             [w |-> 1, h |-> 2, stride |-> 2, bytes |-> <<80, 9, 220, 9>>]}

\* Empty, compilable, with a missing kernel, outside the table after and
\* before a known opcode, and refused.
MCPipelines == {<<>>, <<OP_RESIZE, OP_GRAYSCALE>>, <<OP_BRIGHTNESS>>,
                <<OP_CROP, 300>>, <<300>>, <<OP_CUSTOM_BASE>>}

=============================================================================
