---------------------------- MODULE MCVideoPlayer ----------------------------
(* Three files without sound, one with a packet that does not decode and one  *)
(* with nothing to show; two with sound, between and before the pictures.     *)
EXTENDS VideoPlayer

MCFiles == {<<"pic", "pic", "bad", "pic">>, <<"pic", "pic">>, <<"bad">>,
            <<"pic", "audio", "pic">>, <<"bad", "audio", "pic", "pic">>}
=============================================================================
