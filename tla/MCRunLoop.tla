------------------------------ MODULE MCRunLoop -----------------------------
(* RunLoop with short slices: values for the cfg files.                    *)
EXTENDS RunLoop
MCOutcomes ==
    {<<"none", 0, 0>>, <<"none", 1, 1>>, <<"fault", 0, 0>>, <<"fault", 0, 1>>,
     <<"halted", 0, 0>>, <<"execution_limit", 0, 0>>}
MCSpin == {<<"none", 1, 1>>}
=============================================================================
