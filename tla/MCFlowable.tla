----------------------------- MODULE MCFlowable -----------------------------
(* Chains for model checking Flowable.                                     *)
EXTENDS Flowable

MCChains ==
    {<< >>, <<"map">>, <<"filter">>, <<"take">>, <<"filter", "take">>,
     <<"take", "filter">>, <<"subscribeOn">>, <<"toFlowable">>,
     <<"omap", "ofilter", "toFlowable", "take">>, <<"toFlowable", "filter">>,
     <<"otake", "toFlowable">>, <<"osubscribeOn", "toFlowable">>, <<"toFlowable", "subscribeOn">>,
     <<"map", "filter", "take">>}

=============================================================================
