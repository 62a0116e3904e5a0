---------------------------- MODULE MCPeerTable ----------------------------
(* TLC instance of PeerTable.  The cfg gives three connections, two        *)
(* addresses and two remote ids as model values, and a peer cap of one so  *)
(* that a single admitted peer fills the table.                            *)
EXTENDS PeerTable, TLC

\* Connections are interchangeable, and so are addresses.
MCSymmetry == Permutations(Conn) \cup Permutations(Addr)
=============================================================================
