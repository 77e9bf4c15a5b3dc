------------------------------ MODULE RawImage ------------------------------
(***************************************************************************)
(* What assembling to a raw image promises: a program is laid out in one   *)
(* of the ways its items allow, and becomes the image that it means when   *)
(* it is laid out so.  What these ways and images are is RawMeaning's.     *)
(***************************************************************************)
CONSTANTS Programs,           \* the programs that may be assembled
          IsPlacement(_, _),  \* whether the items of a program may go there
          Image(_, _)         \* the image of a program with its items there

VARIABLES prog,   \* the program
          place,  \* where each item goes, once laid out
          image   \* the tryte at each address, once assembled

ImageVars == <<prog, place, image>>

ImageInit ==
  /\ prog \in Programs
  /\ place = <<>>
  /\ image = <<>>

LayOut ==
  /\ place = <<>>
  /\ IsPlacement(prog, place')
  /\ UNCHANGED <<prog, image>>

Assemble ==
  /\ DOMAIN place = DOMAIN prog
  /\ image = <<>> /\ image' # <<>>
  /\ image' = Image(prog, place)
  /\ UNCHANGED <<prog, place>>

ImageSpec == ImageInit /\ [][LayOut \/ Assemble]_ImageVars
=============================================================================
