--------------------------- MODULE MCAudioCommand ---------------------------
(***************************************************************************)
(* AudioCommandThread with requests of each kind: volumes on two handles   *)
(* and two overlapping sets of parameters on one.                          *)
(***************************************************************************)
EXTENDS AudioCommandThread

Ask(kind, io, keys) == [kind |-> kind, io |-> io, keys |-> keys]

MCRequest ==
    {Ask("SET_VOLUME", 1, {"music"}), Ask("SET_VOLUME", 2, {"music"}),
     Ask("SET_PARAMETERS", 1, {"a"}), Ask("SET_PARAMETERS", 1, {"a", "b"}),
     Ask("SET_VOICE_VOLUME", 1, {}), Ask("START_TONE", 1, {})}
=============================================================================
