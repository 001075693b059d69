\* tcp_server.h:36: "waitting all connections quiting safely"
SPECIFICATION ServerFairSpec
CONSTANT Conn = {c1}
PROPERTY DrainEnds
CHECK_DEADLOCK FALSE
