SPECIFICATION Spec
CONSTANTS
  Threads = {t1, t2}
  Functions = {clEnqueueNDRangeKernel, clEnqueueCopyBuffer, clGetKernelInfo,
               clGetExtensionFunctionAddressForPlatform}
  Enqueues = {clEnqueueNDRangeKernel, clEnqueueCopyBuffer}
  Reported = {clEnqueueNDRangeKernel}
  Naming = {clEnqueueNDRangeKernel}
  KernelInfo = clGetKernelInfo
  GetAddress = clGetExtensionFunctionAddressForPlatform
  Extensions = {clMemFreeINTEL}
  None = None
  MaxCalls = 3
  MaxTime = 4
INVARIANT
  OmittedWhenDisabled
