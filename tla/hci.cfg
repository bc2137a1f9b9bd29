SPECIFICATION FairSpec
CONSTANTS
    CONFIG_BT_RX_BUF_COUNT = 3
    CONFIG_BT_RX_BUF_RSV_COUNT = 1
    DATA_MSG_CNT = 3
    MaxPackets = 6
INVARIANTS PacketsKept SlotsExact ReserveKept Served
PROPERTIES AllDelivered
CHECK_DEADLOCK FALSE
