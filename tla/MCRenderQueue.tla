----------------------------- MODULE MCRenderQueue -----------------------------
(* Instances of RenderQueue for TLC. *)
EXTENDS RenderQueue, TLC

CONSTANTS j1, j2, t1, t2, w1, w2, e1

Behaviour(jobs, ticks, slots, c, f) ==
    [jobs |-> jobs, ticks |-> ticks, slots |-> slots, crashes |-> c, faults |-> f]

\* Ticks that overlap, with a crash or a failed statement; crash upon crash beside a failed
\* statement; an editor saving beside a job.
MCBounds ==
    {Behaviour({j1, j2}, {t1, t2}, {w1, w2}, 1, 0),
     Behaviour({j1, j2}, {t1, t2}, {w1, w2}, 0, 1),
     Behaviour({j1, j2}, {t1}, {w1}, 2, 1),
     Behaviour({j1}, {t1}, {w1, e1}, 1, 0)}
=============================================================================
