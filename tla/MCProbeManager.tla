--------------------------- MODULE MCProbeManager ---------------------------
(***************************************************************************)
(* ProbeManager for TLC: each endpoint is named after the backend that     *)
(* derive_probe_endpoint finds it for.                                     *)
(***************************************************************************)
EXTENDS ProbeManager

\* Either process may be an Ollama server, on the one port they share; the
\* first may also come back as a vLLM server.
MCOffers == (Pids \X {"ollama"}) \cup {<<1, "vllm">>}

=============================================================================
