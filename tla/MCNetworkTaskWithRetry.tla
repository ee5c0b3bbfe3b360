----------------------- MODULE MCNetworkTaskWithRetry -----------------------
(* Model-checking instance of NetworkTaskWithRetry: two base URIs and a    *)
(* budget of three attempts, so that the rotation wraps around, a          *)
(* rate-limit error can be followed by another retriable error, and the    *)
(* budget runs out.                                                        *)
EXTENDS NetworkTaskWithRetry

MCNumBaseUris == 2
MCMaxAttempts == 3
=============================================================================
