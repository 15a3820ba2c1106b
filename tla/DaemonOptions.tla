--------------------------- MODULE DaemonOptions ---------------------------
(***************************************************************************)
(* How a daemon is configured: the settings of a rest_server become the    *)
(* flags and the list of options that start() gives to MHD_start_daemon,   *)
(* and MHD_start_daemon_va and parse_options_va make a daemon of them.     *)
(*                                                                         *)
(* The build has poll() and neither HTTPS, digest authentication nor       *)
(* epoll().  A daemon is the record of the fields the options set.         *)
(***************************************************************************)
EXTENDS Integers, SequencesExt

CONSTANTS
  Half,           \* 2^31: an unsigned int is below 2 * Half
  DefaultLimit,   \* MHD_MAX_CONNECTIONS_DEFAULT
  TooManyWorkers  \* UINT_MAX / sizeof (struct MHD_Daemon)

ASSUME OptionsAssumption == Half \in Nat \ {0} /\ DefaultLimit \in Nat /\ TooManyWorkers \in Nat

Unsigned == 0 .. 2 * Half - 1
AsInt(n) == IF n < Half THEN n ELSE n - 2 * Half
AsUnsigned(n) == n % (2 * Half)

(* A member of enum MHD_OPTION that a daemon of this build takes, with the *)
(* field it sets.                                                          *)
SizeFields ==
  [CONNECTION_MEMORY_LIMIT     |-> "pool_size",
   CONNECTION_MEMORY_INCREMENT |-> "pool_increment",
   THREAD_STACK_SIZE           |-> "thread_stack_size"]

UnsignedFields ==
  [CONNECTION_LIMIT        |-> "connection_limit",
   CONNECTION_TIMEOUT      |-> "connection_timeout",
   PER_IP_CONNECTION_LIMIT |-> "per_ip_connection_limit",
   THREAD_POOL_SIZE        |-> "worker_pool_size",
   TCP_FASTOPEN_QUEUE_SIZE |-> "fastopen_queue_size",
   LISTENING_ADDRESS_REUSE |-> "listening_address_reuse"]

PointerFields ==
  [LISTEN_SOCKET     |-> "socket_fd",
   SOCK_ADDR         |-> "servaddr",
   NOTIFY_COMPLETED  |-> "notify_completed",
   URI_LOG_CALLBACK  |-> "uri_log_callback",
   EXTERNAL_LOGGER   |-> "custom_error_log",
   UNESCAPE_CALLBACK |-> "unescape_callback"]

FieldOf ==
  [option \in DOMAIN SizeFields \cup DOMAIN UnsignedFields \cup DOMAIN PointerFields |->
     CASE option \in DOMAIN SizeFields     -> SizeFields[option]
       [] option \in DOMAIN UnsignedFields -> UnsignedFields[option]
       [] OTHER                            -> PointerFields[option]]

(* Members of enum MHD_FLAG, and those for which the build has no support. *)
Unsupported == {"SSL", "EPOLL_LINUX_ONLY"}

-----------------------------------------------------------------------------
NewDaemon(flags) ==
  [options |-> flags, pool_size |-> "32 KB", pool_increment |-> "1 KB", thread_stack_size |-> 0,
   connection_limit |-> DefaultLimit, connection_timeout |-> 0, per_ip_connection_limit |-> 0,
   worker_pool_size |-> 0, fastopen_queue_size |-> 0, listening_address_reuse |-> 0,
   socket_fd |-> "invalid", servaddr |-> "any", notify_completed |-> "none",
   uri_log_callback |-> "none", custom_error_log |-> "stderr",
   unescape_callback |-> "unescape_wrapper"]

NoDaemon == [options |-> {}]   \* MHD_NO, or a null pointer

Item(option, value) == [option |-> option, value |-> value]
End == Item("END", 0)

(* The items in front of the first MHD_OPTION_END.                         *)
EndOf(list) == CHOOSE k \in DOMAIN list : list[k] = End /\ \A j \in 1 .. k - 1 : list[j] # End
Items(list) == SubSeq(list, 1, EndOf(list) - 1)

SetOption(daemon, item) ==
  LET value == CASE item.option = "LISTENING_ADDRESS_REUSE" -> IF item.value # 0 THEN 1 ELSE -1
                 [] OTHER -> item.value
  IN  IF daemon = NoDaemon \/ item.option \notin DOMAIN FieldOf
         \/ (item.option = "THREAD_POOL_SIZE" /\ item.value >= TooManyWorkers)
        THEN NoDaemon
        ELSE [daemon EXCEPT ![FieldOf[item.option]] = value]

MutItemValue(item) == item.value   \* bug: the value of an unsigned int stays a signed one

(* The value of an item of an array is a signed number, or a pointer.      *)
ItemValue(item) ==
  IF item.option \in DOMAIN UnsignedFields THEN AsUnsigned(item.value) ELSE item.value

SetItem(daemon, item) == SetOption(daemon, [item EXCEPT !.value = ItemValue(item)])

(* An array may hold arrays too, which start() has no use for.             *)
SetArrayOrOption(daemon, item) ==
  IF item.option = "ARRAY" THEN FoldLeft(SetItem, daemon, Items(item.value))
                           ELSE SetOption(daemon, item)

ParseOptions(daemon, list) == FoldLeft(SetArrayOrOption, daemon, Items(list))

(* What MHD_start_daemon_va refuses, whatever the system would give it.    *)
Acceptable(daemon) ==
  /\ daemon # NoDaemon
  /\ daemon.options \cap Unsupported = {}
  /\ daemon.worker_pool_size > 0 => "SELECT_INTERNALLY" \in daemon.options

-----------------------------------------------------------------------------
(* The flags and the options of start().                                   *)
Flags(set, use_poll) ==
  {IF set.threads # 0 THEN "SELECT_INTERNALLY" ELSE "THREAD_PER_CONNECTION"}
  \cup (IF use_poll THEN {"POLL"} ELSE {}) \cup {"PIPE_FOR_SHUTDOWN"}

Array(option, n) == <<IF n # 0 THEN Item(option, AsInt(n)) ELSE End, End>>

Options(set) ==
  <<Item("LISTENING_ADDRESS_REUSE", 1),
    Item("ARRAY", Array("THREAD_POOL_SIZE", set.threads)),
    Item("ARRAY", Array("CONNECTION_LIMIT", set.max_connections)),
    Item("CONNECTION_MEMORY_LIMIT", "64 KB"),
    Item("CONNECTION_TIMEOUT", set.timeout),
    Item("NOTIFY_COMPLETED", "request_completed"),
    End>>

Configured(set, use_poll) == ParseOptions(NewDaemon(Flags(set, use_poll)), Options(set))
============================================================================
