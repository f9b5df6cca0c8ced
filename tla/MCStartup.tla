----------------------------- MODULE MCStartup -----------------------------
(* Startup for TLC: two IDs are built in, and one of them is still on the list
   that is downloaded, which is longer and has an entry without an ID, or on an
   empty one. *)
EXTENDS Startup

TwoBuiltIn == <<1, 2>>
SomeDownloads == {<<>>, <<2, NoID, 4>>}
=============================================================================
