-------------------------- MODULE TerminalRefinement --------------------------
(***************************************************************************)
(* Terminal seen through Consoles: the shown console is active_terminal,  *)
(* the running slot is current_task, and the image of terminal t is the   *)
(* content of the frame that holds it, the screen when t is active and    *)
(* its own video_mem otherwise.  Line buffers, input status, the reads    *)
(* and the video page mapping have no abstract counterpart.               *)
(***************************************************************************)
EXTENDS Terminal

imageBar == [t \in Terminals |-> disp[Backing(t)]]

CS == INSTANCE Consoles WITH
        NumConsoles <- NumTerminals, shown <- active, running <- current,
        image <- imageBar

(* Every behaviour of the keyboard handler, terminal_read, terminal_write, *)
(* ctrl+c, switch_terminals and schedule() is a behaviour of the abstract *)
(* consoles: the ALT+Fn swap (save the screen into the old terminal's     *)
(* frame, then load the new one's) changes no console's image, and a      *)
(* write either adds the running task's output to its own console's image *)
(* or lands in a frame that no console's image is read from.              *)
ConsolesRefinement == CS!Spec
====
