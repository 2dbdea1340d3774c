--------------------------- MODULE MCProxyEvents ---------------------------
(* Instance for TLC: two connections for one or two descriptors, messages  *)
(* of two buffers, batches that cannot hold every ready descriptor.        *)
EXTENDS ProxyEvents

CONSTANTS c1, c2
=============================================================================
