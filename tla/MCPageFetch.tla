----------------------------- MODULE MCPageFetch -----------------------------
EXTENDS PageFetch

(* Everything, or the pages without the data routes. *)
MCRobotsFiles == {Requests, {"home", "page"}}
=============================================================================
