-------------------------------- MODULE Worker --------------------------------
(***************************************************************************)
(* What the modules about the Worker's requests share: the principal that  *)
(* Sessions gives an address is the one FamilyResource asks for a family.  *)
(***************************************************************************)
CONSTANTS Request,  \* requests that can be under way at once
          Email,    \* addresses
          None      \* no value
=============================================================================
