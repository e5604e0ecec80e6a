------------------------------- MODULE MCVhci -------------------------------
(* Control requests of drivers. FewRequests has one for every way in which   *)
(* the device treats them, AllRequests those of enumeration apart all of     *)
(* them.                                                                     *)
EXTENDS Vhci

FewRequests ==
    {<<"string", 255>>, <<"string", 256>>, <<"interface", 9>>, <<"bos", 5>>,
     <<"get_status", 2>>, <<"set_interface", 0>>, <<"clear_feature", 0>>,
     <<"cancel", 1>>, <<"device_status", 4>>}

AllRequests ==
    FewRequests \cup
    {<<"qualifier", 10>>, <<"second_config", 9>>, <<"endpoint", 7>>,
     <<"debug", 4>>, <<"other", 8>>, <<"get_configuration", 1>>,
     <<"get_interface", 1>>, <<"event_data", 4>>, <<"reset", 0>>}

=============================================================================
