------------------------------ MODULE MCIbgda ------------------------------
EXTENDS Ibgda

(* Two warps whose puts and quiets overlap on a bnxt queue pair.           *)
do(what, n) ==
  [kind |-> what, lanes |-> n, chunks |-> 1, addr |-> FALSE]
MCScenarios ==
  {[prv |-> "BNXT",
    prog |-> <<<<do("put", 2), do("atomic", 1), do("putSignal", 1),
                 do("quiet", 0)>>,
               <<do("get", 2), do("put", 2), do("quiet", 0), do("put", 1)>>>>]}
=============================================================================
