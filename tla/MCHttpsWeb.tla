----------------------------- MODULE MCHttpsWeb -----------------------------
(* Four browsers, and places for two children: the third fork fails with a *)
(* fourth browser in the queue.                                            *)
EXTENDS HttpsWeb
=============================================================================
