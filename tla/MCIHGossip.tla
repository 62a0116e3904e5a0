---------------------------- MODULE MCIHGossip -----------------------------
(* TLC instance of IHGossip.  The cfg gives two peers and two info-hashes  *)
(* as model values, two SetCurrent calls, and two handshakes per peer so   *)
(* that a repeated handshake empties the extension table during a          *)
(* broadcast.                                                              *)
EXTENDS IHGossip, TLC

\* Peers are interchangeable, and so are info-hashes.
MCSymmetry == Permutations(Peer) \cup Permutations(IH)
=============================================================================
