SPECIFICATION Spec
CONSTANTS
  CHANNEL_NUM = 2
  ERR_HANDL_MAILBOX_SIZE = 1
PROPERTY BlownFuseIsReported
