SPECIFICATION AskedSpec
CONSTANTS
    Host = {h1, h2}
    probe_num = 1
    init_succ_cnt = 1
    init_err_cnt = 1
    ErrNum = 2
    ErrDen = 3
    SuccNum = 2
    SuccDen = 5
    contin_err_limit = 2
    contin_succ_limit = 2
    idle_timeout = 1
    overload_timeout = 1
    update_timeout = 0
    MaxReports = 2
INVARIANTS ListsPartitionHosts ThresholdsRespected WindowsAgree ServedHostsMatchDns ReporterUpToDate AnswersAreCurrent
PROPERTIES IdleHostsTakeTurns OverloadedHostsProbed OverloadWaitEnds
